---- MODULE Spec2Model ----
(***************************************************************************)
(* Batch file upload of k8m: pkg/controller/pod/pod_file.go.               *)
(*                                                                         *)
(* One BatchUpload request is modelled from the moment the handler is      *)
(* entered until the response is written.  The request (cluster selection  *)
(* outcome, the four form parameters, the multipart form and its file      *)
(* headers) is chosen in Init.  The handler goroutine ("main") validates,  *)
(* allocates the result, spawns one goroutine per file header, waits on    *)
(* the WaitGroup and writes the response.  Every worker goroutine runs the *)
(* body of the closure of processBatchUpload: semaphore acquire,           *)
(* uploadSingleFile (name check, staging with saveUploadedFile, remote     *)
(* write with uploadToPod, deferred os.Remove), the locked update of the   *)
(* shared result and the deferred semaphore release and wg.Done.           *)
(*                                                                         *)
(* Strings that the code inspects character by character (file names, the  *)
(* destination path) are sequences of one-character strings.               *)
(***************************************************************************)
EXTENDS Integers, Sequences, FiniteSets, TLC

(***************************************************************************)
(* Bounds.  maxFiles is 50 and the semaphore capacity is 5 in the source   *)
(* (pod_file.go:110 and :132); both are scaled down here so that every     *)
(* interleaving of the workers can be enumerated.  The batch sizes that    *)
(* are explored are 0 .. maxFiles + 1, so the empty batch, the largest     *)
(* accepted batch and the smallest rejected batch are all present, and     *)
(* maxFiles > semaphoreCap so that the admission gate is saturated.        *)
(***************************************************************************)
maxFiles == 3

semaphoreCap == 2

MaxItems == maxFiles + 1

\* The longest name the sanitizer is applied to on its own.
MaxNameLen == 3

\* The largest number of entries of LOCAL_DIR the upload scripts are run on.
MaxEntries == 3
MaxArrayLen == 4
MaxKey == 3

(***************************************************************************)
(* Inputs.                                                                 *)
(***************************************************************************)
\* The file names of the explored batches: the empty name, which uploadSingleFile
\* rejects, and a name holding a character the sanitizer replaces, so that the
\* original and the sanitized name differ.  The same name may occur several
\* times in one batch.
NameEmpty == << >>

NameBC == <<"b", ":", "c">>

PathTmp == <<"/", "t", "m", "p">>

\* The names of the three-item batch with a duplicate name: a.txt, b:c.txt, a.txt.
NameATxt == <<"a", ".", "t", "x", "t">>

NameBCTxt == <<"b", ":", "c", ".", "t", "x", "t">>

\* The names "." and "..", which filepath.Base leaves as they are, so that the
\* multipart parser hands them on.
NameDot == <<".">>

NameDotDot == <<".", ".">>

DotNameBatch ==
    << [Filename |-> NameDot, Size |-> 1], [Filename |-> NameDotDot, Size |-> 1] >>

DuplicateNameBatch ==
    << [Filename |-> NameATxt,  Size |-> 5],
       [Filename |-> NameBCTxt, Size |-> 7],
       [Filename |-> NameATxt,  Size |-> 5] >>

\* multipart.FileHeader: only Filename and Size are read by the code.
Headers ==
    { [Filename |-> NameEmpty, Size |-> 1],
      [Filename |-> NameBC,    Size |-> 3] }

SeqsUpTo(S, n) == UNION { [1..k -> S] : k \in 0..n }

\* c.PostForm returns "" for an absent field.
ParamValues(v) == { "", v }

VARIABLES
    selectErr,   \* amis.GetSelectedCluster returned an error
    info,        \* the info struct filled from the form fields
    formErr,     \* c.MultipartForm returned an error
    files,       \* form.File["files"]
    mpc,         \* position of the handler goroutine
    loopIdx,     \* index of the next item the for loop of processBatchUpload spawns
    result,      \* the BatchUploadResult shared by the workers (null before allocation)
    semaphore,   \* number of tokens in the buffered channel
    wg,          \* WaitGroup counter
    mu,          \* 0 when the mutex is free, else the index of the worker holding it
    pc,          \* position of each worker goroutine
    fileResult,  \* each worker's local fileResult (the value uploadSingleFile returned)
    loaded,      \* the counters each worker has read for its increment (null: none)
    tempDirs,    \* the temporary directories on disk
    tempFiles,   \* the temporary files on disk: a function from path to content
    stageOutcome,    \* what saveUploadedFile did for each item ("none": not called)
    transferOutcome, \* what uploadToPod did for each item ("none": not called)
    resp,        \* the response written to the client
    remoteCalls, \* the arguments of each item's poder.UploadFile call (null: not called)
    abandoned,   \* the caller has given up the request (its context is cancelled)
    cur,         \* the BatchUpload call the variables above belong to
    other,       \* the state of the other, concurrently running BatchUpload call
    sanTrace,    \* a name and the results of applying SanitizeFileName to it repeatedly
    sh,          \* the run of the bash upload script
    js,          \* the run of the Node upload script
    sortRun,     \* a call of one of the sort functions
    searchRun    \* a call of one of the search functions

vars == << selectErr, info, formErr, files, mpc, loopIdx, result, semaphore, wg, mu,
           pc, fileResult, loaded, tempDirs, tempFiles, stageOutcome, transferOutcome, resp,
           remoteCalls, abandoned, cur, other, sanTrace, sh, js, sortRun, searchRun >>

\* The variables of the upload scripts and of the sort and search functions.
utilVars == << sh, js, sortRun, searchRun >>

request == << selectErr, info, formErr, files >>

N == Len(files)

Workers == 1..N

Null == [null |-> TRUE]

\* The zero value of FileUploadResult (make([]FileUploadResult, n) fills with it).
ZeroFileResult == [FileName |-> << >>, Status |-> "", Error |-> << >>, Size |-> 0]

NoResponse == [kind |-> "none"]

\* amis.WriteJsonError(c, err): a request-level error, no payload.
JsonError(e) == [kind |-> "error", error |-> e]

\* amis.WriteJsonData(c, data): the normal response.
JsonData(d) == [kind |-> "data", data |-> d]

Init ==
    /\ selectErr \in BOOLEAN
    /\ info \in [ContainerName : ParamValues("c"), Namespace : ParamValues("ns"),
                 PodName : ParamValues("pod"), Path : {<< >>, PathTmp}]
    /\ formErr \in BOOLEAN
    /\ files \in SeqsUpTo(Headers, MaxItems) \cup {DuplicateNameBatch, DotNameBatch}
    /\ mpc = "entry"
    /\ loopIdx = 0
    /\ result = Null
    /\ semaphore = 0
    /\ wg = 0
    /\ mu = 0
    /\ pc = [i \in 1..Len(files) |-> "idle"]
    /\ fileResult = [i \in 1..Len(files) |-> Null]
    /\ loaded = [i \in 1..Len(files) |-> Null]
    /\ tempDirs = {}
    /\ tempFiles = << >>
    /\ stageOutcome = [i \in 1..Len(files) |-> "none"]
    /\ transferOutcome = [i \in 1..Len(files) |-> "none"]
    /\ resp = NoResponse
    /\ remoteCalls = [i \in 1..Len(files) |-> Null]
    /\ abandoned = FALSE
    /\ cur = 1
    /\ other = Null
    /\ sanTrace = << >>
    /\ sh = Null
    /\ js = Null
    /\ sortRun = Null
    /\ searchRun = Null

(***************************************************************************)
(* BatchUpload, lines 79-120: the request validator.                       *)
(***************************************************************************)
\* Variant of ValidationError: the size check rejects a batch of exactly maxFiles.
ValidationError_OffByOne(inf, ferr, fs) ==
    IF inf.ContainerName = "" \/ inf.Namespace = "" \/ inf.PodName = "" \/ inf.Path = << >>
    THEN "MissingParams"
    ELSE IF ferr THEN "FormError"
    ELSE IF Len(fs) = 0 THEN "NoFiles"
    ELSE IF Len(fs) >= maxFiles THEN "TooManyFiles"
    ELSE "ok"

\* Variant of ValidationError: the destination path is not checked.
ValidationError_PathUnchecked(inf, ferr, fs) ==
    IF inf.ContainerName = "" \/ inf.Namespace = "" \/ inf.PodName = ""
    THEN "MissingParams"
    ELSE IF ferr THEN "FormError"
    ELSE IF Len(fs) = 0 THEN "NoFiles"
    ELSE IF Len(fs) > maxFiles THEN "TooManyFiles"
    ELSE "ok"

\* Variant of ValidationError: the size of the batch is checked before the
\* parameters.
ValidationError_SizeFirst(inf, ferr, fs) ==
    IF ferr THEN "FormError"
    ELSE IF Len(fs) = 0 THEN "NoFiles"
    ELSE IF Len(fs) > maxFiles THEN "TooManyFiles"
    ELSE IF inf.ContainerName = "" \/ inf.Namespace = "" \/ inf.PodName = "" \/ inf.Path = << >>
    THEN "MissingParams"
    ELSE "ok"

\* Variant of ValidationError: the number of files is not limited.
ValidationError_NoSizeLimit(inf, ferr, fs) ==
    IF inf.ContainerName = "" \/ inf.Namespace = "" \/ inf.PodName = "" \/ inf.Path = << >>
    THEN "MissingParams"
    ELSE IF ferr THEN "FormError"
    ELSE IF Len(fs) = 0 THEN "NoFiles"
    ELSE "ok"

\* Lines 91-114, evaluated in the order of the code.  ferr is the outcome of
\* c.MultipartForm(), fs the files of the parsed form.
ValidationError(inf, ferr, fs) ==
    IF inf.ContainerName = "" \/ inf.Namespace = "" \/ inf.PodName = "" \/ inf.Path = << >>
    THEN "MissingParams"                        \* line 92
    ELSE IF ferr THEN "FormError"               \* line 99
    ELSE IF Len(fs) = 0 THEN "NoFiles"          \* line 105
    ELSE IF Len(fs) > maxFiles THEN "TooManyFiles"  \* line 112
    ELSE "ok"

\* Lines 79-116: cluster selection, parameter checks, form parsing, batch size checks.
\* Every failure writes a JSON error and returns; otherwise processBatchUpload is called.
BatchUpload ==
    /\ mpc = "entry"
    /\ IF selectErr
       THEN /\ resp' = JsonError("SelectClusterError")
            /\ mpc' = "responded"
       ELSE IF ValidationError(info, formErr, files) # "ok"
       THEN /\ resp' = JsonError(ValidationError(info, formErr, files))
            /\ mpc' = "responded"
       ELSE /\ resp' = resp
            /\ mpc' = "process"
    /\ UNCHANGED << request, loopIdx, result, semaphore, wg, mu, pc, fileResult,
                    tempDirs, tempFiles, stageOutcome, transferOutcome >>
    /\ UNCHANGED << remoteCalls, abandoned, cur, other, sanTrace, loaded, utilVars >>

(***************************************************************************)
(* processBatchUpload, lines 123-167: the handler goroutine.               *)
(***************************************************************************)
\* Lines 124-129: the result, pre-sized to the number of files.
NewBatchUploadResult(fs) ==
    [TotalFiles   |-> Len(fs),
     SuccessCount |-> 0,
     FailureCount |-> 0,
     Files        |-> [i \in 1..Len(fs) |-> ZeroFileResult],
     StartTime    |-> "start",
     EndTime      |-> "zero",
     Duration     |-> "zero"]

\* Lines 124-134: allocate the result, the semaphore, the WaitGroup and the mutex.
Allocate ==
    /\ mpc = "process"
    /\ result' = NewBatchUploadResult(files)
    /\ semaphore' = 0
    /\ wg' = 0
    /\ mu' = 0
    /\ loopIdx' = 1
    /\ mpc' = "spawn"
    /\ UNCHANGED << request, pc, fileResult, tempDirs, tempFiles, stageOutcome,
                    transferOutcome, resp >>
    /\ UNCHANGED << remoteCalls, abandoned, cur, other, sanTrace, loaded, utilVars >>

\* Lines 136-138 and 156: one iteration of the for loop: wg.Add(1) and the go statement.
Spawn ==
    /\ mpc = "spawn"
    /\ loopIdx <= N
    /\ wg' = wg + 1
    /\ pc' = [pc EXCEPT ![loopIdx] = "acquire"]
    /\ loopIdx' = loopIdx + 1
    /\ mpc' = IF loopIdx = N THEN "wait" ELSE "spawn"
    /\ UNCHANGED << request, result, semaphore, mu, fileResult, tempDirs, tempFiles,
                    stageOutcome, transferOutcome, resp >>
    /\ UNCHANGED << remoteCalls, abandoned, cur, other, sanTrace, loaded, utilVars >>

\* Variant of WaitReleased: no join barrier.
WaitReleased_NoBarrier(counter) == TRUE

\* Line 159: wg.Wait() returns when the counter is zero.
WaitReleased(counter) == counter = 0

\* Lines 159-161: the join barrier, then EndTime and Duration.
Wait ==
    /\ mpc = "wait"
    /\ WaitReleased(wg)
    /\ result' = [result EXCEPT !.EndTime = "end", !.Duration = "end-start"]
    /\ mpc' = "return"
    /\ UNCHANGED << request, loopIdx, semaphore, wg, mu, pc, fileResult, tempDirs,
                    tempFiles, stageOutcome, transferOutcome, resp >>
    /\ UNCHANGED << remoteCalls, abandoned, cur, other, sanTrace, loaded, utilVars >>

\* Variant of Return: a batch with a failed item is answered with a request-level error.
Return_ErrorOnFailure ==
    /\ mpc = "return"
    /\ resp' = IF result.FailureCount > 0 THEN JsonError("UploadFailed")
               ELSE JsonData(result)
    /\ mpc' = "responded"
    /\ UNCHANGED << request, loopIdx, result, semaphore, wg, mu, pc, fileResult,
                    tempDirs, tempFiles, stageOutcome, transferOutcome >>
    /\ UNCHANGED << remoteCalls, abandoned, cur, other, sanTrace, loaded, utilVars >>

\* Lines 166 and 119: the result is returned and written as the normal response.
Return ==
    /\ mpc = "return"
    /\ resp' = JsonData(result)
    /\ mpc' = "responded"
    /\ UNCHANGED << request, loopIdx, result, semaphore, wg, mu, pc, fileResult,
                    tempDirs, tempFiles, stageOutcome, transferOutcome >>
    /\ UNCHANGED << remoteCalls, abandoned, cur, other, sanTrace, loaded, utilVars >>

(***************************************************************************)
(* The worker goroutine, lines 138-156, and uploadSingleFile, 170-216.     *)
(***************************************************************************)
\* Variant of CanSend: the send never blocks (no admission gate).
CanSend_Unbounded(tokens) == TRUE

\* Variant of CanSend: the channel has room for one more token.
CanSend_OneMore(tokens) == tokens <= semaphoreCap

\* Line 142: a send on the buffered channel blocks while the channel is full.
CanSend(tokens) == tokens < semaphoreCap

\* Variant of Acquire: a worker that finds the request abandoned returns at once,
\* without processing its item or writing its slot; its deferred wg.Done() runs.
Acquire_Cancellable(i) ==
    /\ pc[i] = "acquire"
    /\ IF abandoned
       THEN /\ wg' = wg - 1
            /\ pc' = [pc EXCEPT ![i] = "done"]
            /\ UNCHANGED semaphore
       ELSE /\ CanSend(semaphore)
            /\ semaphore' = semaphore + 1
            /\ pc' = [pc EXCEPT ![i] = "upload"]
            /\ UNCHANGED wg
    /\ UNCHANGED << request, mpc, loopIdx, result, mu, fileResult, tempDirs,
                    tempFiles, stageOutcome, transferOutcome, resp >>
    /\ UNCHANGED << remoteCalls, abandoned, cur, other, sanTrace, loaded, utilVars >>

\* Variant of Acquire: the worker locks the mutex before it calls
\* uploadSingleFile.
Acquire_HoldingLock(i) ==
    /\ pc[i] = "acquire"
    /\ CanSend(semaphore)
    /\ mu = 0
    /\ mu' = i
    /\ semaphore' = semaphore + 1
    /\ pc' = [pc EXCEPT ![i] = "upload"]
    /\ UNCHANGED << request, mpc, loopIdx, result, wg, fileResult, tempDirs,
                    tempFiles, stageOutcome, transferOutcome, resp >>
    /\ UNCHANGED << remoteCalls, abandoned, cur, other, sanTrace, loaded, utilVars >>

\* Lines 141-142: the send on the semaphore.
Acquire(i) ==
    /\ pc[i] = "acquire"
    /\ CanSend(semaphore)
    /\ semaphore' = semaphore + 1
    /\ pc' = [pc EXCEPT ![i] = "upload"]
    /\ UNCHANGED << request, mpc, loopIdx, result, wg, mu, fileResult, tempDirs,
                    tempFiles, stageOutcome, transferOutcome, resp >>
    /\ UNCHANGED << remoteCalls, abandoned, cur, other, sanTrace, loaded, utilVars >>

\* Outcomes of saveUploadedFile (lines 567-595): success, or a failure of
\* os.MkdirTemp, os.Create, file.Open or io.Copy.
StageOutcomes == {"ok", "mkdir", "create", "open", "copy"}

\* Outcomes of uploadToPod (lines 598-617): success, or a failure of os.Open
\* or of poder.UploadFile.
TransferOutcomes == {"ok", "open", "upload"}

\* Lines 171-174.
InitialFileResult(f) ==
    [FileName |-> f.Filename, Status |-> "", Error |-> << >>, Size |-> f.Size]

\* Variant of EmptyNameResult: an item without a name is reported as done.
EmptyNameResult_Accepted(f) == [InitialFileResult(f) EXCEPT !.Status = "done"]

\* Lines 177-181: the empty-name result.
EmptyNameResult(f) ==
    [InitialFileResult(f) EXCEPT !.Status = "error", !.Error = <<"EmptyFileName">>]

\* Variant of StageErrorResult: the status of a failed staging is left unset.
StageErrorResult_StatusUnset(f, o) ==
    [InitialFileResult(f) EXCEPT !.Error = <<"SaveTempFileFailed", o, "ioerr">>]

\* Lines 191-195: fmt.Sprintf("save temp file failed: %v", err), err being the
\* error saveUploadedFile built at the failing call.
StageErrorResult(f, o) ==
    [InitialFileResult(f) EXCEPT !.Status = "error",
                                 !.Error = <<"SaveTempFileFailed", o, "ioerr">>]

\* Variant of TransferErrorResult: the error uploadToPod returned is dropped, only
\* the fixed text is reported.
TransferErrorResult_ErrorDropped(f, o) ==
    [FileName |-> f.Filename, Status |-> "error",
     Error |-> <<"UploadToPodFailed">>, Size |-> f.Size]

\* Variant of TransferErrorResult: the status of a failed transfer is left "done".
TransferErrorResult_StatusDone(f, o) ==
    [FileName |-> f.Filename, Status |-> "done",
     Error |-> <<"UploadToPodFailed", o, IF o = "open" THEN "ioerr" ELSE "remoteerr">>,
     Size |-> f.Size]

\* Lines 208-212: fmt.Sprintf("upload to pod failed: %v", err), err being the
\* error uploadToPod built around the failing call.
TransferErrorResult(f, o) ==
    [InitialFileResult(f) EXCEPT !.Status = "error",
                                 !.Error = <<"UploadToPodFailed", o,
                                             IF o = "open" THEN "ioerr" ELSE "remoteerr">>]

\* Variant of DoneResult: line 214 is missing, the status stays empty.
DoneResult_StatusUnset(f) ==
    [FileName |-> f.Filename, Status |-> "", Error |-> << >>, Size |-> f.Size]

\* Lines 214-215.
DoneResult(f) == [InitialFileResult(f) EXCEPT !.Status = "done"]

\* The characters utils.SanitizeFileName replaces: the path separators and
\* / : * ? " < > | ( ) and the space.
Blacklist == {"/", "\\", ":", "*", "?", "\"", "<", ">", "|", "(", ")", " "}

\* Variant of SanitizeFileName: the colon is not in the replaced set.
SanitizeFileName_ColonKept(name) ==
    [k \in 1..Len(name) |->
        IF name[k] \in Blacklist \ {":"} THEN "_" ELSE name[k]]

\* Variant of SanitizeFileName: a replaced character becomes a space, a space an
\* underscore.
SanitizeFileName_SpaceFiller(name) ==
    [k \in 1..Len(name) |->
        IF name[k] = " " THEN "_"
        ELSE IF name[k] \in Blacklist THEN " "
        ELSE name[k]]

\* utils.SanitizeFileName (line 184): every replaced character becomes one
\* underscore, every other character is kept.
SanitizeFileName(name) ==
    [k \in 1..Len(name) |-> IF name[k] \in Blacklist THEN "_" ELSE name[k]]

\* The elements of a path between its separators, empty ones included.
RECURSIVE SplitFrom(_, _, _)
SplitFrom(p, done, elem) ==
    IF p = << >> THEN Append(done, elem)
    ELSE IF Head(p) = "/" THEN SplitFrom(Tail(p), Append(done, elem), << >>)
    ELSE SplitFrom(Tail(p), done, Append(elem, Head(p)))

SplitPath(p) == SplitFrom(p, << >>, << >>)

\* filepath.Clean on the elements: empty elements and "." are dropped, ".." removes
\* the element before it (at the root it is dropped, at the start of a relative
\* path it is kept).
RECURSIVE CleanElements(_, _, _)
CleanElements(es, rooted, acc) ==
    IF es = << >> THEN acc
    ELSE LET e == Head(es)
             next == IF e = << >> \/ e = <<".">> THEN acc
                     ELSE IF e # <<".", ".">> THEN Append(acc, e)
                     ELSE IF acc # << >> /\ acc[Len(acc)] # <<".", ".">>
                          THEN SubSeq(acc, 1, Len(acc) - 1)
                     ELSE IF rooted THEN acc
                     ELSE Append(acc, e)
         IN  CleanElements(Tail(es), rooted, next)

RECURSIVE JoinElements(_)
JoinElements(es) ==
    IF es = << >> THEN << >>
    ELSE IF Len(es) = 1 THEN es[1]
    ELSE es[1] \o <<"/">> \o JoinElements(Tail(es))

\* filepath.Clean.
Clean(p) ==
    LET rooted == p # << >> /\ p[1] = "/"
        es == CleanElements(SplitPath(p), rooted, << >>)
    IN  IF rooted THEN <<"/">> \o JoinElements(es)
        ELSE IF es = << >> THEN <<".">>
        ELSE JoinElements(es)

\* filepath.Join(dir, name) of line 202: the non-empty arguments joined by a
\* separator, then cleaned; the empty string when both are empty.
JoinPath(dir, name) ==
    IF dir = << >> /\ name = << >> THEN << >>
    ELSE IF dir = << >> THEN Clean(name)
    ELSE IF name = << >> THEN Clean(dir)
    ELSE Clean(dir \o <<"/">> \o name)

\* filepath.Base: the last element of a path, trailing separators dropped; "." for
\* the empty path, the separator for a path of separators only.
RECURSIVE DropTrailingSeparators(_)
DropTrailingSeparators(p) ==
    IF p # << >> /\ p[Len(p)] = "/" THEN DropTrailingSeparators(SubSeq(p, 1, Len(p) - 1))
    ELSE p

Base(p) ==
    IF p = << >> THEN <<".">>
    ELSE IF DropTrailingSeparators(p) = << >> THEN <<"/">>
    ELSE LET es == SplitPath(DropTrailingSeparators(p))
         IN  es[Len(es)]

\* Variant of SingleFileInfo: the destination is built from the original name.
SingleFileInfo_OriginalName(inf, f) ==
    [ContainerName |-> inf.ContainerName,
     Namespace     |-> inf.Namespace,
     PodName       |-> inf.PodName,
     Path          |-> JoinPath(inf.Path, f.Filename),
     FileName      |-> f.Filename]

\* Lines 199-205: the info of one item's upload.
SingleFileInfo(inf, f) ==
    [ContainerName |-> inf.ContainerName,
     Namespace     |-> inf.Namespace,
     PodName       |-> inf.PodName,
     Path          |-> JoinPath(inf.Path, SanitizeFileName(f.Filename)),
     FileName      |-> SanitizeFileName(f.Filename)]

\* Variant of DirOf: every item is staged in the one shared temporary directory.
DirOf_Shared(i) == << 0, 0 >>

\* Line 569: os.MkdirTemp("", "upload-*") creates a new directory, with a name no
\* other call of os.MkdirTemp gets: here the pair of the call and the item.
DirOf(i) == << cur, i >>

\* Variant of StagedPath: the file is staged under its sanitized name.
StagedPath_Sanitized(i) == << DirOf(i), SanitizeFileName(files[i].Filename) >>

\* Line 575: filepath.Join(tempDir, file.Filename), the original name.
StagedPath(i) == << DirOf(i), files[i].Filename >>

\* The path a directory of os.MkdirTemp has, its name shortened to one letter.
TempDirPath == <<"/", "u">>

\* The path of line 575 as a string: the name joined to the directory's path.
StagedPathName(f) == JoinPath(TempDirPath, f.Filename)

\* The names the requests carry.
FileNames == {NameEmpty, NameBC, NameATxt, NameBCTxt, NameDot, NameDotDot}

\* The names whose joined path is a path inside the directory.
NamesInsideDir ==
    { n \in FileNames : Base(StagedPathName([Filename |-> n, Size |-> 0])) = n }

\* Variant of StageOutcomesOf: saveUploadedFile can succeed for every name.
StageOutcomesOf_AnyName(f) == StageOutcomes

\* Lines 569-590 for one header.  When the joined path is not a path inside the
\* directory (the name is "." or ".."), it names a directory and os.Create fails.
StageOutcomesOf(f) ==
    IF f.Filename \in NamesInsideDir THEN StageOutcomes
    ELSE {"mkdir", "create"}

\* The content of a temporary file: empty after os.Create, then the bytes of one
\* item of one call, all of them ("full") or not ("partial").
Content(state, i) ==
    [state |-> state,
     call  |-> IF state = "empty" THEN 0 ELSE cur,
     item  |-> IF state = "empty" THEN 0 ELSE i]

\* os.Create and the writes to the file: a file at this path is replaced.
WriteFile(fs, path, content) ==
    [p \in DOMAIN fs \cup {path} |-> IF p = path THEN content ELSE fs[p]]

\* Variant of RemoveFile: the file is left on disk.
RemoveFile_Kept(fs, path) == fs

\* os.Remove of a file; removing a missing file is an error the code ignores.
RemoveFile(fs, path) == [p \in DOMAIN fs \ {path} |-> fs[p]]

\* What saveUploadedFile leaves on disk (lines 569-590) for each outcome.
StagedFiles(fs, i, o) ==
    IF o \in {"mkdir", "create"} THEN fs
    ELSE IF o = "open" THEN WriteFile(fs, StagedPath(i), Content("empty", i))
    ELSE IF o = "copy" THEN WriteFile(fs, StagedPath(i), Content("partial", i))
    ELSE WriteFile(fs, StagedPath(i), Content("full", i))

\* Lines 605-612: os.Open of the staged file fails when the file is missing; the
\* remote writer is called when it opened.
TransferOutcomesOf(fs, i) ==
    IF StagedPath(i) \in DOMAIN fs THEN TransferOutcomes ELSE {"open"}

\* Line 612: poder.UploadFile(info.Path, openTmpFile) on the pod the info names,
\* reading the content the staged file has.
RemoteCall(fs, i) ==
    [info |-> SingleFileInfo(info, files[i]), source |-> fs[StagedPath(i)]]

\* Lines 171-195: name check, then saveUploadedFile.  With an empty name the
\* function returns at once.  A failing saveUploadedFile returns without removing
\* what it created: the directory after os.MkdirTemp, the file after os.Create.
Stage(i) ==
    /\ pc[i] = "upload"
    /\ IF files[i].Filename = << >>
       THEN /\ fileResult' = [fileResult EXCEPT ![i] = EmptyNameResult(files[i])]
            /\ pc' = [pc EXCEPT ![i] = "lock"]
            /\ UNCHANGED << tempDirs, tempFiles, stageOutcome >>
       ELSE \E o \in StageOutcomesOf(files[i]) :
            /\ stageOutcome' = [stageOutcome EXCEPT ![i] = o]
            /\ tempDirs' = IF o = "mkdir" THEN tempDirs ELSE tempDirs \cup {DirOf(i)}
            /\ tempFiles' = StagedFiles(tempFiles, i, o)
            /\ IF o = "ok"
               THEN /\ pc' = [pc EXCEPT ![i] = "transfer"]
                    /\ UNCHANGED fileResult
               ELSE /\ fileResult' = [fileResult EXCEPT
                                         ![i] = StageErrorResult(files[i], o)]
                    /\ pc' = [pc EXCEPT ![i] = "lock"]
    /\ UNCHANGED << request, mpc, loopIdx, result, semaphore, wg, mu, transferOutcome,
                    resp >>
    /\ UNCHANGED << remoteCalls, abandoned, cur, other, sanTrace, loaded, utilVars >>

\* Variant of Transfer: the error of uploadToPod is kept in a variable shared by the
\* workers, so that once one transfer has failed every later one reports a failure.
Transfer_SharedError(i) ==
    /\ pc[i] = "transfer"
    /\ \E o \in TransferOutcomesOf(tempFiles, i) :
          /\ transferOutcome' = [transferOutcome EXCEPT ![i] = o]
          /\ remoteCalls' = [remoteCalls EXCEPT
                                ![i] = IF o = "open" THEN Null
                                       ELSE RemoteCall(tempFiles, i)]
          /\ fileResult' = [fileResult EXCEPT
                               ![i] = IF /\ o = "ok"
                                         /\ \A j \in Workers :
                                               transferOutcome[j] \in {"none", "ok"}
                                      THEN [FileName |-> files[i].Filename,
                                            Status |-> "done", Error |-> << >>,
                                            Size |-> files[i].Size]
                                      ELSE [FileName |-> files[i].Filename,
                                            Status |-> "error",
                                            Error |-> <<"UploadToPodFailed", "upload",
                                                        "remoteerr">>,
                                            Size |-> files[i].Size]]
    /\ tempFiles' = RemoveFile(tempFiles, StagedPath(i))
    /\ pc' = [pc EXCEPT ![i] = "lock"]
    /\ UNCHANGED << request, mpc, loopIdx, result, semaphore, wg, mu, tempDirs,
                    stageOutcome, resp >>
    /\ UNCHANGED << abandoned, cur, other, sanTrace, loaded, utilVars >>

\* Lines 208-215 and the deferred os.Remove of line 196: uploadToPod returns,
\* the temporary file is removed, uploadSingleFile returns.
Transfer(i) ==
    /\ pc[i] = "transfer"
    /\ \E o \in TransferOutcomesOf(tempFiles, i) :
          /\ transferOutcome' = [transferOutcome EXCEPT ![i] = o]
          /\ remoteCalls' = [remoteCalls EXCEPT
                                ![i] = IF o = "open" THEN Null
                                       ELSE RemoteCall(tempFiles, i)]
          /\ fileResult' = [fileResult EXCEPT
                               ![i] = IF o = "ok" THEN DoneResult(files[i])
                                      ELSE TransferErrorResult(files[i], o)]
    /\ tempFiles' = RemoveFile(tempFiles, StagedPath(i))
    /\ pc' = [pc EXCEPT ![i] = "lock"]
    /\ UNCHANGED << request, mpc, loopIdx, result, semaphore, wg, mu, tempDirs,
                    stageOutcome, resp >>
    /\ UNCHANGED << abandoned, cur, other, sanTrace, loaded, utilVars >>

\* Variant of Lock: the worker enters without waiting for the mutex.
Lock_NoMutex(i) ==
    /\ pc[i] = "lock"
    /\ mu' = i
    /\ pc' = [pc EXCEPT ![i] = "load"]
    /\ UNCHANGED << request, mpc, loopIdx, result, semaphore, wg, fileResult, tempDirs,
                    tempFiles, stageOutcome, transferOutcome, resp >>
    /\ UNCHANGED << remoteCalls, abandoned, cur, other, sanTrace, loaded, utilVars >>

\* Line 148.
Lock(i) ==
    /\ pc[i] = "lock"
    /\ mu = 0
    /\ mu' = i
    /\ pc' = [pc EXCEPT ![i] = "load"]
    /\ UNCHANGED << request, mpc, loopIdx, result, semaphore, wg, fileResult, tempDirs,
                    tempFiles, stageOutcome, transferOutcome, resp >>
    /\ UNCHANGED << remoteCalls, abandoned, cur, other, sanTrace, loaded, utilVars >>

\* Variant of UpdateResult: the results are stored in completion order (an append).
UpdateResult_CompletionOrder(res, index, fr) ==
    [res EXCEPT !.Files[res.SuccessCount + res.FailureCount + 1] = fr,
                !.SuccessCount = IF fr.Status = "done" THEN @ + 1 ELSE @,
                !.FailureCount = IF fr.Status = "done" THEN @ ELSE @ + 1]

\* Variant of UpdateResult: every worker writes the first slot.
UpdateResult_FirstSlot(res, index, fr) ==
    [res EXCEPT !.Files[1] = fr,
                !.SuccessCount = IF fr.Status = "done" THEN @ + 1 ELSE @,
                !.FailureCount = IF fr.Status = "done" THEN @ ELSE @ + 1]

\* Variant of UpdateResult: a failed item is not counted.
UpdateResult_FailureUncounted(res, index, fr) ==
    [res EXCEPT !.Files[index] = fr,
                !.SuccessCount = IF fr.Status = "done" THEN @ + 1 ELSE @]

\* Lines 149-154: the slot of the worker's index and one of the two counters.
UpdateResult(res, index, fr) ==
    [res EXCEPT !.Files[index] = fr,
                !.SuccessCount = IF fr.Status = "done" THEN @ + 1 ELSE @,
                !.FailureCount = IF fr.Status = "done" THEN @ ELSE @ + 1]

\* The counters as a worker reads them.
Counters(res) ==
    [SuccessCount |-> res.SuccessCount, FailureCount |-> res.FailureCount]

\* Lines 150-153: the increments are not atomic; this is their read half.
Load(i) ==
    /\ pc[i] = "load"
    /\ loaded' = [loaded EXCEPT ![i] = Counters(result)]
    /\ pc' = [pc EXCEPT ![i] = "update"]
    /\ UNCHANGED << request, mpc, loopIdx, result, semaphore, wg, mu, fileResult,
                    tempDirs, tempFiles, stageOutcome, transferOutcome, resp >>
    /\ UNCHANGED << remoteCalls, abandoned, cur, other, sanTrace, utilVars >>

\* Lines 149-155: the writes of the critical section (the slot, which no other
\* goroutine touches before wg.Wait() returns, and the counter, incremented
\* from the value read) and mu.Unlock(), which does not check the holder.
Update(i) ==
    /\ pc[i] = "update"
    /\ result' = UpdateResult([result EXCEPT
                                  !.SuccessCount = loaded[i].SuccessCount,
                                  !.FailureCount = loaded[i].FailureCount],
                              i, fileResult[i])
    /\ loaded' = [loaded EXCEPT ![i] = Null]
    /\ mu' = 0
    /\ pc' = [pc EXCEPT ![i] = "release"]
    /\ UNCHANGED << request, mpc, loopIdx, semaphore, wg, fileResult, tempDirs,
                    tempFiles, stageOutcome, transferOutcome, resp >>
    /\ UNCHANGED << remoteCalls, abandoned, cur, other, sanTrace, utilVars >>

\* Variant of Release: the worker ends without receiving from the semaphore.
Release_SlotKept(i) ==
    /\ pc[i] = "release"
    /\ wg' = wg - 1
    /\ pc' = [pc EXCEPT ![i] = "done"]
    /\ UNCHANGED << request, mpc, loopIdx, result, semaphore, mu, fileResult, tempDirs,
                    tempFiles, stageOutcome, transferOutcome, resp >>
    /\ UNCHANGED << remoteCalls, abandoned, cur, other, sanTrace, loaded, utilVars >>

\* The deferred calls, in LIFO order: line 143 (receive from the semaphore) and
\* line 139 (wg.Done()).
Release(i) ==
    /\ pc[i] = "release"
    /\ semaphore' = semaphore - 1
    /\ wg' = wg - 1
    /\ pc' = [pc EXCEPT ![i] = "done"]
    /\ UNCHANGED << request, mpc, loopIdx, result, mu, fileResult, tempDirs,
                    tempFiles, stageOutcome, transferOutcome, resp >>
    /\ UNCHANGED << remoteCalls, abandoned, cur, other, sanTrace, loaded, utilVars >>

Next ==
    \/ BatchUpload
    \/ Allocate
    \/ Spawn
    \/ Wait
    \/ Return
    \/ \E i \in Workers : Acquire(i)
    \/ \E i \in Workers : Stage(i)
    \/ \E i \in Workers : Transfer(i)
    \/ \E i \in Workers : Lock(i)
    \/ \E i \in Workers : Load(i)
    \/ \E i \in Workers : Update(i)
    \/ \E i \in Workers : Release(i)

Spec == Init /\ [][Next]_vars

(***************************************************************************)
(* The caller abandons the request: the context of line 116 is cancelled.   *)
(* The context is handed to uploadSingleFile and to uploadToPod (line 600), *)
(* no line of the batch code reads it; the remote writer may fail because   *)
(* of it, which is one of its outcomes.                                    *)
(***************************************************************************)
\* The requests that pass the validator.
AbandonInit ==
    /\ Init
    /\ ~selectErr
    /\ ~formErr
    /\ info = [ContainerName |-> "c", Namespace |-> "ns", PodName |-> "pod",
               Path |-> PathTmp]
    /\ Len(files) \in 1..maxFiles

Abandon ==
    /\ ~abandoned
    /\ mpc # "responded"
    /\ abandoned' = TRUE
    /\ UNCHANGED << request, mpc, loopIdx, result, semaphore, wg, mu, pc, fileResult,
                    tempDirs, tempFiles, stageOutcome, transferOutcome, resp,
                    remoteCalls, cur, other, sanTrace, loaded, utilVars >>

AbandonNext ==
    \/ Next
    \/ Abandon

\* The Go scheduler runs every goroutine that can take a step, and the calls to
\* the file system and to the remote writer return: while the program can take a
\* step it takes one.
AbandonSpec == AbandonInit /\ [][AbandonNext]_vars /\ WF_vars(Next)

(***************************************************************************)
(* Two BatchUpload calls at once.  gin runs each request in a goroutine of   *)
(* its own, and everything processBatchUpload works on is a local of the     *)
(* call (lines 125-134): the variables of the model are those of the call    *)
(* that takes the next step, and the other call is kept aside until control  *)
(* passes to it.  The two calls have the file system in common.             *)
(***************************************************************************)
\* The state of the current call.
CallState ==
    [selectErr |-> selectErr,
     info |-> info,
     formErr |-> formErr,
     files |-> files,
     mpc |-> mpc,
     loopIdx |-> loopIdx,
     result |-> result,
     semaphore |-> semaphore,
     wg |-> wg,
     mu |-> mu,
     pc |-> pc,
     fileResult |-> fileResult,
     loaded |-> loaded,
     stageOutcome |-> stageOutcome,
     transferOutcome |-> transferOutcome,
     resp |-> resp,
     remoteCalls |-> remoteCalls,
     abandoned |-> abandoned]

\* A call that has not started, for a request that passes the validator.
NewCall(fs) ==
    [selectErr |-> FALSE,
     info |-> [ContainerName |-> "c", Namespace |-> "ns", PodName |-> "pod",
               Path |-> PathTmp],
     formErr |-> FALSE,
     files |-> fs,
     mpc |-> "entry",
     loopIdx |-> 0,
     result |-> Null,
     semaphore |-> 0,
     wg |-> 0,
     mu |-> 0,
     pc |-> [i \in 1..Len(fs) |-> "idle"],
     fileResult |-> [i \in 1..Len(fs) |-> Null],
     loaded |-> [i \in 1..Len(fs) |-> Null],
     stageOutcome |-> [i \in 1..Len(fs) |-> "none"],
     transferOutcome |-> [i \in 1..Len(fs) |-> "none"],
     resp |-> NoResponse,
     remoteCalls |-> [i \in 1..Len(fs) |-> Null],
     abandoned |-> FALSE]

\* The batch of each of the two calls: two items of the same name.
TwoCallBatch == << [Filename |-> NameBC, Size |-> 3], [Filename |-> NameBC, Size |-> 3] >>

\* One call on its own, or two calls with the same request.
TwoInit ==
    /\ selectErr = FALSE
    /\ info = [ContainerName |-> "c", Namespace |-> "ns", PodName |-> "pod",
               Path |-> PathTmp]
    /\ formErr = FALSE
    /\ files = TwoCallBatch
    /\ mpc = "entry"
    /\ loopIdx = 0
    /\ result = Null
    /\ semaphore = 0
    /\ wg = 0
    /\ mu = 0
    /\ pc = [i \in 1..Len(files) |-> "idle"]
    /\ fileResult = [i \in 1..Len(files) |-> Null]
    /\ loaded = [i \in 1..Len(files) |-> Null]
    /\ tempDirs = {}
    /\ tempFiles = << >>
    /\ stageOutcome = [i \in 1..Len(files) |-> "none"]
    /\ transferOutcome = [i \in 1..Len(files) |-> "none"]
    /\ resp = NoResponse
    /\ remoteCalls = [i \in 1..Len(files) |-> Null]
    /\ abandoned = FALSE
    /\ cur = 1
    /\ other \in {Null, NewCall(TwoCallBatch)}
    /\ sanTrace = << >>
    /\ sh = Null
    /\ js = Null
    /\ sortRun = Null
    /\ searchRun = Null

\* Variant of Switch: the semaphore is one package-level channel, which both calls
\* send to and receive from.
Switch_SharedGate ==
    /\ other # Null
    /\ cur' = 3 - cur
    /\ other' = CallState
    /\ selectErr' = other.selectErr
    /\ info' = other.info
    /\ formErr' = other.formErr
    /\ files' = other.files
    /\ mpc' = other.mpc
    /\ loopIdx' = other.loopIdx
    /\ result' = other.result
    /\ wg' = other.wg
    /\ mu' = other.mu
    /\ pc' = other.pc
    /\ fileResult' = other.fileResult
    /\ loaded' = other.loaded
    /\ stageOutcome' = other.stageOutcome
    /\ transferOutcome' = other.transferOutcome
    /\ resp' = other.resp
    /\ remoteCalls' = other.remoteCalls
    /\ abandoned' = other.abandoned
    /\ UNCHANGED << semaphore >>
    /\ UNCHANGED << tempDirs, tempFiles, sanTrace, utilVars >>

\* Control passes from one call to the other.
Switch ==
    /\ other # Null
    /\ cur' = 3 - cur
    /\ other' = CallState
    /\ selectErr' = other.selectErr
    /\ info' = other.info
    /\ formErr' = other.formErr
    /\ files' = other.files
    /\ mpc' = other.mpc
    /\ loopIdx' = other.loopIdx
    /\ result' = other.result
    /\ semaphore' = other.semaphore
    /\ wg' = other.wg
    /\ mu' = other.mu
    /\ pc' = other.pc
    /\ fileResult' = other.fileResult
    /\ loaded' = other.loaded
    /\ stageOutcome' = other.stageOutcome
    /\ transferOutcome' = other.transferOutcome
    /\ resp' = other.resp
    /\ remoteCalls' = other.remoteCalls
    /\ abandoned' = other.abandoned
    /\ UNCHANGED << tempDirs, tempFiles, sanTrace, utilVars >>

TwoNext ==
    \/ Next
    \/ Switch

TwoSpec == TwoInit /\ [][TwoNext]_vars

(***************************************************************************)
(* The sanitizer on its own: a name, then SanitizeFileName applied to it     *)
(* and to its own result.                                                  *)
(***************************************************************************)
\* The characters of the names: the replaced ones, the underscore, and two
\* characters the sanitizer keeps.
SanAlphabet == Blacklist \cup {"_", "a", "."}

\* The argument of SanitizeFileName in TestIsTextFileAndSanitize:
\* a/b:c*?"<>|() name.txt
SanitizeTestName ==
    <<"a", "/", "b", ":", "c", "*", "?", "\"", "<", ">", "|", "(", ")", " ",
      "n", "a", "m", "e", ".", "t", "x", "t">>

\* The value the test asserts the result to be: a_b_c______name.txt
SanitizeTestExpected ==
    <<"a", "_", "b", "_", "c", "_", "_", "_", "_", "_", "_",
      "n", "a", "m", "e", ".", "t", "x", "t">>

SanInit ==
    /\ sanTrace \in { << x >> : x \in SeqsUpTo(SanAlphabet, MaxNameLen)
                                     \cup {SanitizeTestName} }
    /\ selectErr = FALSE
    /\ info = [ContainerName |-> "c", Namespace |-> "ns", PodName |-> "pod",
               Path |-> PathTmp]
    /\ formErr = FALSE
    /\ files = << >>
    /\ mpc = "entry"
    /\ loopIdx = 0
    /\ result = Null
    /\ semaphore = 0
    /\ wg = 0
    /\ mu = 0
    /\ pc = << >>
    /\ fileResult = << >>
    /\ loaded = << >>
    /\ tempDirs = {}
    /\ tempFiles = << >>
    /\ stageOutcome = << >>
    /\ transferOutcome = << >>
    /\ resp = NoResponse
    /\ remoteCalls = << >>
    /\ abandoned = FALSE
    /\ cur = 1
    /\ other = Null
    /\ sh = Null
    /\ js = Null
    /\ sortRun = Null
    /\ searchRun = Null

\* Line 184 applied to the last name of the trace.
Sanitize ==
    /\ Len(sanTrace) \in 1..2
    /\ sanTrace' = Append(sanTrace, SanitizeFileName(sanTrace[Len(sanTrace)]))
    /\ UNCHANGED << request, mpc, loopIdx, result, semaphore, wg, mu, pc, fileResult,
                    tempDirs, tempFiles, stageOutcome, transferOutcome, resp,
                    remoteCalls, abandoned, cur, other, loaded, utilVars >>

SanNext == Sanitize

SanSpec == SanInit /\ [][SanNext]_vars

(***************************************************************************)
(* The state of the batch upload before a request, for the specifications   *)
(* of the other programs.                                                  *)
(***************************************************************************)
Idle ==
    /\ selectErr = FALSE
    /\ info = [ContainerName |-> "c", Namespace |-> "ns", PodName |-> "pod",
               Path |-> PathTmp]
    /\ formErr = FALSE
    /\ files = << >>
    /\ mpc = "entry"
    /\ loopIdx = 0
    /\ result = Null
    /\ semaphore = 0
    /\ wg = 0
    /\ mu = 0
    /\ pc = << >>
    /\ fileResult = << >>
    /\ loaded = << >>
    /\ tempDirs = {}
    /\ tempFiles = << >>
    /\ stageOutcome = << >>
    /\ transferOutcome = << >>
    /\ resp = NoResponse
    /\ remoteCalls = << >>
    /\ abandoned = FALSE
    /\ cur = 1
    /\ other = Null
    /\ sanTrace = << >>

podVars == << selectErr, info, formErr, files, mpc, loopIdx, result, semaphore, wg, mu,
              pc, fileResult, loaded, tempDirs, tempFiles, stageOutcome, transferOutcome, resp,
              remoteCalls, abandoned, cur, other, sanTrace >>

(***************************************************************************)
(* The bash upload script, part_000.  The script runs under set -euo         *)
(* pipefail: a command that returns a non-zero status ends the script with   *)
(* that status, unless it is tested or followed by ||.                      *)
(***************************************************************************)
\* The entries "$LOCAL_DIR"/* expands to (line 34): regular files and others.
EntryKinds == {"file", "dir"}

\* What one curl call (lines 52-60) leaves in resp: a JSON body whose
\* .data.file.status is "done", a JSON body with another status, nothing (curl
\* failed, "|| true" goes on), or a body that is not JSON.
CurlOutcomes == {"done", "error", "failed", "notjson"}

ShInit ==
    /\ Idle
    /\ sh \in [env : BOOLEAN, jq : BOOLEAN, entries : SeqsUpTo(EntryKinds, MaxEntries),
                pc : {"start"}, idx : {1}, success : {0}, failed : {0},
                failed_list : {<< >>}, uploads : {<< >>}, out : {<< >>},
                status : {-1}]
    /\ js = Null
    /\ sortRun = Null
    /\ searchRun = Null

\* exit n.
ShExit(r, n) == [r EXCEPT !.pc = "exited", !.status = n]

\* Lines 14-41: the checks of the environment and of jq, the expansion of the
\* directory, the exit when it is empty.
ShStart ==
    /\ sh.pc = "start"
    /\ sh' = IF ~sh.env
                THEN ShExit([sh EXCEPT !.out = Append(@, [kind |-> "MissingEnv"])], 1)
             ELSE IF ~sh.jq
                THEN ShExit([sh EXCEPT !.out = Append(@, [kind |-> "JqRequired"])], 1)
             ELSE IF Len(sh.entries) = 0
                THEN ShExit([sh EXCEPT !.out = Append(@, [kind |-> "NoFiles"])], 0)
             ELSE [sh EXCEPT !.pc = "loop",
                             !.out = Append(@, [kind |-> "Starting",
                                                count |-> Len(sh.entries)])]
    /\ UNCHANGED << podVars, js, sortRun, searchRun >>

\* The status of the command (( v++ )): that of an arithmetic expression, 1
\* when its value is 0 and 0 otherwise; the value of v++ is v before the increment.
ArithStatus(v) == IF v = 0 THEN 1 ELSE 0

\* Lines 62-72 for the body resp holds: the two jq calls, the test, the echo
\* and the counting.  jq fails on a body that is not JSON, and with pipefail
\* the assignment of line 62 returns its status, 2.
ShAccount(r, o) ==
    LET k == r.idx
        tried == [r EXCEPT !.uploads = Append(@, o),
                           !.out = Append(@, [kind |-> "Uploading", file |-> k])]
    IN  IF o = "notjson" THEN ShExit(tried, 2)
        ELSE IF o = "done"
             THEN LET counted == [tried EXCEPT
                                     !.out = Append(@, [kind |-> "OK", file |-> k]),
                                     !.success = @ + 1]
                  IN  IF ArithStatus(tried.success) # 0
                      THEN ShExit(counted, ArithStatus(tried.success))
                      ELSE [counted EXCEPT !.idx = @ + 1]
        ELSE LET counted == [tried EXCEPT
                                !.out = Append(@, [kind |-> "FAIL", file |-> k]),
                                !.failed = @ + 1]
             IN  IF ArithStatus(tried.failed) # 0
                 THEN ShExit(counted, ArithStatus(tried.failed))
                 ELSE [counted EXCEPT !.failed_list = Append(@, k), !.idx = @ + 1]

\* Lines 43-73: one pass of the loop.
ShLoop ==
    /\ sh.pc = "loop"
    /\ sh.idx <= Len(sh.entries)
    /\ IF sh.entries[sh.idx] # "file"
       THEN sh' = [sh EXCEPT !.idx = @ + 1]
       ELSE \E o \in CurlOutcomes : sh' = ShAccount(sh, o)
    /\ UNCHANGED << podVars, js, sortRun, searchRun >>

\* Lines 75-80: the summary and the exit status.
ShSummary ==
    /\ sh.pc = "loop"
    /\ sh.idx > Len(sh.entries)
    /\ LET said == [sh EXCEPT !.out = Append(@, [kind |-> "Summary",
                                                 success |-> sh.success,
                                                 failed |-> sh.failed])]
       IN  sh' = IF sh.failed > 0
                 THEN ShExit([said EXCEPT !.out = Append(@, [kind |-> "FailedFiles",
                                                             list |-> sh.failed_list])], 1)
                 ELSE ShExit(said, 0)
    /\ UNCHANGED << podVars, js, sortRun, searchRun >>

ShNext ==
    \/ ShStart
    \/ ShLoop
    \/ ShSummary

ShSpec == ShInit /\ [][ShNext]_vars

(***************************************************************************)
(* The Node upload script, part_001.                                       *)
(***************************************************************************)
\* How one uploadOne call ends (lines 40-57): the response says "done", the
\* response says something else, or axios.post throws.
UploadOneOutcomes == {"done", "error", "throw"}

\* Line 62: the regular files among the entries, in the order of the listing.
RECURSIVE RegularFiles(_, _)
RegularFiles(entries, k) ==
    IF k > Len(entries) THEN << >>
    ELSE IF entries[k] = "file" THEN << k >> \o RegularFiles(entries, k + 1)
    ELSE RegularFiles(entries, k + 1)

JsInit ==
    /\ Idle
    /\ js \in [env : BOOLEAN, readable : BOOLEAN,
                entries : SeqsUpTo(EntryKinds, MaxEntries),
                pc : {"start"}, files : {<< >>}, idx : {1}, inflight : {{}},
                success : {0}, failed : {0}, failures : {<< >>}, uploads : {<< >>},
                out : {<< >>}, status : {-1}]
    /\ sh = Null
    /\ sortRun = Null
    /\ searchRun = Null

\* process.exit(n), or the end of the process with status n.
JsExit(r, n) == [r EXCEPT !.pc = "exited", !.status = n]

\* Lines 17-24 and 60-69.  A missing variable ends the process with status 2.
\* When readdir rejects, nothing catches it: the process ends with status 1.
JsStart ==
    /\ js.pc = "start"
    /\ js' = IF ~js.env
                THEN JsExit([js EXCEPT !.out = Append(@, [kind |-> "MissingEnv"])], 2)
             ELSE IF ~js.readable
                THEN JsExit(js, 1)
             ELSE IF RegularFiles(js.entries, 1) = << >>
                THEN JsExit([js EXCEPT !.out = Append(@, [kind |-> "NoFiles"])], 0)
             ELSE [js EXCEPT !.pc = "loop",
                             !.files = RegularFiles(js.entries, 1),
                             !.out = Append(@, [kind |-> "Uploading",
                                                count |-> Len(RegularFiles(js.entries, 1))])]
    /\ UNCHANGED << podVars, sh, sortRun, searchRun >>

\* Lines 74-75 and 28-41: the loop calls uploadOne for the next file, which posts
\* the request; the loop waits for it.
JsCall ==
    /\ js.pc = "loop"
    /\ js.idx <= Len(js.files)
    /\ js' = [js EXCEPT !.pc = "await", !.inflight = @ \cup {js.idx}]
    /\ UNCHANGED << podVars, sh, sortRun, searchRun >>

\* Variant of JsAccount: nothing catches an exception of axios.post, it ends the
\* process.
JsAccount_Uncaught(r, o) ==
    LET f == r.files[r.idx]
        tried == [r EXCEPT !.uploads = Append(@, o), !.inflight = @ \ {r.idx}]
    IN  IF o = "throw" THEN JsExit(tried, 1)
        ELSE IF o = "done"
        THEN [tried EXCEPT !.out = Append(@, [kind |-> "OK", file |-> f]),
                           !.success = @ + 1, !.idx = @ + 1, !.pc = "loop"]
        ELSE [tried EXCEPT !.out = Append(@, [kind |-> "FAIL", file |-> f]),
                           !.failed = @ + 1, !.failures = Append(@, f),
                           !.idx = @ + 1, !.pc = "loop"]

\* Lines 49-57 and 76-83: the result of uploadOne (ok only for "done"; an
\* exception is caught and gives a failure) and the counting.
JsAccount(r, o) ==
    LET f == r.files[r.idx]
        tried == [r EXCEPT !.uploads = Append(@, o), !.inflight = @ \ {r.idx}]
    IN  IF o = "done"
        THEN [tried EXCEPT !.out = Append(@, [kind |-> "OK", file |-> f]),
                           !.success = @ + 1, !.idx = @ + 1, !.pc = "loop"]
        ELSE [tried EXCEPT !.out = Append(@, [kind |-> "FAIL", file |-> f]),
                           !.failed = @ + 1, !.failures = Append(@, f),
                           !.idx = @ + 1, !.pc = "loop"]

\* The request of the awaited uploadOne call ends.
JsSettle ==
    /\ js.pc = "await"
    /\ \E o \in UploadOneOutcomes : js' = JsAccount(js, o)
    /\ UNCHANGED << podVars, sh, sortRun, searchRun >>

\* Lines 86-90.
JsSummary ==
    /\ js.pc = "loop"
    /\ js.idx > Len(js.files)
    /\ LET said == [js EXCEPT !.out = Append(@, [kind |-> "Summary",
                                                 success |-> js.success,
                                                 failed |-> js.failed])]
       IN  js' = IF js.failed > 0
                 THEN JsExit([said EXCEPT !.out = Append(@, [kind |-> "FailedFiles",
                                                             list |-> js.failures])], 1)
                 ELSE JsExit(said, 0)
    /\ UNCHANGED << podVars, sh, sortRun, searchRun >>

JsNext ==
    \/ JsStart
    \/ JsCall
    \/ JsSettle
    \/ JsSummary

JsSpec == JsInit /\ [][JsNext]_vars

(***************************************************************************)
(* The sorting algorithms, part_004.  Arrays are sequences; the operators  *)
(* keep the 0-based indices of the code.                                   *)
(***************************************************************************)
At(arr, i) == arr[i + 1]

Set(arr, i, v) == [arr EXCEPT ![i + 1] = v]

\* ;[arr[i], arr[j]] = [arr[j], arr[i]]
Swap(arr, i, j) == [arr EXCEPT ![i + 1] = arr[j + 1], ![j + 1] = arr[i + 1]]

\* The comparators the tests pass: a - b, b - a, and a.k - b.k on objects.
Comparators == {"asc", "desc"}

Cmp(cmp, a, b) == IF cmp = "asc" THEN a.k - b.k ELSE b.k - a.k

\* Numbers (id 0) or objects that carry their position in the input as id.
NumberArrays ==
    UNION { [1..n -> [k : 1..MaxKey, id : {0}]] : n \in 0..MaxArrayLen }

ObjectArrays ==
    { [i \in 1..Len(ks) |-> [k |-> ks[i].k, id |-> i]] : ks \in NumberArrays }

\* Variant of Spread: the algorithm works on the caller's array.
Spread_Alias(input) == [arr |-> input, alias |-> TRUE]

\* const arr = [...input]
Spread(input) == [arr |-> input, alias |-> FALSE]

\* What a call that sorted its array c.arr in place into sorted hands back: the
\* returned array, the caller's array after the call, and whether the two are
\* the same object.
InPlaceResult(c, sorted) ==
    [ret |-> sorted, input |-> IF c.alias THEN sorted ELSE c.arr, same |-> c.alias]

RECURSIVE PartitionLoop(_, _, _, _, _, _)
PartitionLoop(arr, cmp, hi, pivot, i, j) ==
    IF j >= hi THEN [arr |-> Swap(arr, i, hi), pivotIndex |-> i]
    ELSE IF Cmp(cmp, At(arr, j), pivot) <= 0
         THEN PartitionLoop(Swap(arr, i, j), cmp, hi, pivot, i + 1, j + 1)
         ELSE PartitionLoop(arr, cmp, hi, pivot, i, j + 1)

partition(arr, cmp, lo, hi) == PartitionLoop(arr, cmp, hi, At(arr, hi), lo, lo)

RECURSIVE qs(_, _, _, _)
qs(arr, cmp, lo, hi) ==
    IF lo >= hi THEN arr
    ELSE LET p == partition(arr, cmp, lo, hi)
         IN  qs(qs(p.arr, cmp, lo, p.pivotIndex - 1), cmp, p.pivotIndex + 1, hi)

quickSort(input, cmp) ==
    LET c == Spread(input)
    IN  InPlaceResult(c, IF Len(c.arr) > 1 THEN qs(c.arr, cmp, 0, Len(c.arr) - 1)
                            ELSE c.arr)

\* Variant of TakeLeft: on a tie the element of the right half goes first.
TakeLeft_Strict(c) == c < 0

\* Line 49: comparator(a[i], b[j]) <= 0.
TakeLeft(c) == c <= 0

RECURSIVE MergeLoop(_, _, _, _, _, _)
MergeLoop(a, b, cmp, i, j, merged) ==
    IF i < Len(a) /\ j < Len(b)
    THEN IF TakeLeft(Cmp(cmp, At(a, i), At(b, j)))
         THEN MergeLoop(a, b, cmp, i + 1, j, Append(merged, At(a, i)))
         ELSE MergeLoop(a, b, cmp, i, j + 1, Append(merged, At(b, j)))
    ELSE merged \o SubSeq(a, i + 1, Len(a)) \o SubSeq(b, j + 1, Len(b))

merge(a, b, cmp) == MergeLoop(a, b, cmp, 0, 0, << >>)

RECURSIVE mergeSort(_, _)
mergeSort(input, cmp) ==
    LET c == Spread(input)
        mid == Len(c.arr) \div 2
    IN  IF Len(c.arr) <= 1 THEN InPlaceResult(c, c.arr)
        ELSE [ret |-> merge(mergeSort(SubSeq(c.arr, 1, mid), cmp).ret,
                            mergeSort(SubSeq(c.arr, mid + 1, Len(c.arr)), cmp).ret,
                            cmp),
              input |-> c.arr,
              same |-> FALSE]

RECURSIVE heapify(_, _, _, _)
heapify(arr, cmp, n, i) ==
    LET l == 2 * i + 1
        r == 2 * i + 2
        first == IF l < n /\ Cmp(cmp, At(arr, l), At(arr, i)) > 0 THEN l ELSE i
        largest == IF r < n /\ Cmp(cmp, At(arr, r), At(arr, first)) > 0 THEN r ELSE first
    IN  IF largest # i THEN heapify(Swap(arr, i, largest), cmp, n, largest) ELSE arr

\* Line 74.
RECURSIVE BuildHeap(_, _, _, _)
BuildHeap(arr, cmp, n, i) ==
    IF i >= 0 THEN BuildHeap(heapify(arr, cmp, n, i), cmp, n, i - 1) ELSE arr

\* Lines 75-78.
RECURSIVE ExtractLoop(_, _, _)
ExtractLoop(arr, cmp, i) ==
    IF i > 0 THEN ExtractLoop(heapify(Swap(arr, 0, i), cmp, i, 0), cmp, i - 1) ELSE arr

heapSort(input, cmp) ==
    LET c == Spread(input)
        n == Len(c.arr)
    IN  InPlaceResult(c, ExtractLoop(BuildHeap(c.arr, cmp, n, (n \div 2) - 1),
                                        cmp, n - 1))

\* Lines 87-91.
RECURSIVE ShiftLoop(_, _, _, _)
ShiftLoop(arr, cmp, key, j) ==
    IF j >= 0 /\ Cmp(cmp, At(arr, j), key) > 0
    THEN ShiftLoop(Set(arr, j + 1, At(arr, j)), cmp, key, j - 1)
    ELSE Set(arr, j + 1, key)

RECURSIVE InsertLoop(_, _, _)
InsertLoop(arr, cmp, i) ==
    IF i < Len(arr) THEN InsertLoop(ShiftLoop(arr, cmp, At(arr, i), i - 1), cmp, i + 1)
    ELSE arr

insertionSort(input, cmp) ==
    LET c == Spread(input)
    IN  InPlaceResult(c, InsertLoop(c.arr, cmp, 1))

\* Lines 100-102.
RECURSIVE MinIndexLoop(_, _, _, _)
MinIndexLoop(arr, cmp, minIndex, j) ==
    IF j < Len(arr)
    THEN MinIndexLoop(arr, cmp,
                      IF Cmp(cmp, At(arr, j), At(arr, minIndex)) < 0 THEN j ELSE minIndex,
                      j + 1)
    ELSE minIndex

RECURSIVE SelectLoop(_, _, _)
SelectLoop(arr, cmp, i) ==
    IF i < Len(arr)
    THEN LET minIndex == MinIndexLoop(arr, cmp, i, i + 1)
         IN  SelectLoop(IF minIndex # i THEN Swap(arr, i, minIndex) ELSE arr, cmp, i + 1)
    ELSE arr

selectionSort(input, cmp) ==
    LET c == Spread(input)
    IN  InPlaceResult(c, SelectLoop(c.arr, cmp, 0))

\* Lines 116-121.
RECURSIVE BubblePass(_, _, _, _, _, _)
BubblePass(arr, cmp, n, i, j, swapped) ==
    IF j < n - i - 1
    THEN IF Cmp(cmp, At(arr, j), At(arr, j + 1)) > 0
         THEN BubblePass(Swap(arr, j, j + 1), cmp, n, i, j + 1, TRUE)
         ELSE BubblePass(arr, cmp, n, i, j + 1, swapped)
    ELSE [arr |-> arr, swapped |-> swapped]

RECURSIVE BubbleLoop(_, _, _, _, _)
BubbleLoop(arr, cmp, n, i, swapped) ==
    IF i < n - 1 /\ swapped
    THEN LET pass == BubblePass(arr, cmp, n, i, 0, FALSE)
         IN  BubbleLoop(pass.arr, cmp, n, i + 1, pass.swapped)
    ELSE arr

bubbleSort(input, cmp) ==
    LET c == Spread(input)
    IN  InPlaceResult(c, BubbleLoop(c.arr, cmp, Len(c.arr), 0, TRUE))

Algorithms ==
    {"quickSort", "mergeSort", "heapSort", "insertionSort", "selectionSort", "bubbleSort"}

SortInit ==
    /\ Idle
    /\ sortRun \in { [original |-> a, input |-> a, cmp |-> c, alg |-> "none",
                        out |-> << >>, same |-> FALSE, twice |-> FALSE,
                        again |-> << >>] :
                       a \in NumberArrays \cup ObjectArrays, c \in Comparators }
    /\ sh = Null
    /\ js = Null
    /\ searchRun = Null

\* The call alg(input, cmp) of the algorithm of that name.
Sort(name, input, cmp) ==
    CASE name = "quickSort" -> quickSort(input, cmp)
      [] name = "mergeSort" -> mergeSort(input, cmp)
      [] name = "heapSort" -> heapSort(input, cmp)
      [] name = "insertionSort" -> insertionSort(input, cmp)
      [] name = "selectionSort" -> selectionSort(input, cmp)
      [] name = "bubbleSort" -> bubbleSort(input, cmp)

\* out = alg(input, cmp)
SortCall(name) ==
    /\ sortRun.alg = "none"
    /\ LET r == Sort(name, sortRun.input, sortRun.cmp)
       IN  sortRun' = [sortRun EXCEPT !.alg = name, !.out = r.ret,
                                      !.input = r.input, !.same = r.same]
    /\ UNCHANGED << podVars, sh, js, searchRun >>

\* alg(out, cmp), the second call of the idempotence test.
SortAgain(name) ==
    /\ sortRun.alg = name
    /\ ~sortRun.twice
    /\ LET r == Sort(name, sortRun.out, sortRun.cmp)
       IN  sortRun' = [sortRun EXCEPT !.twice = TRUE, !.again = r.ret,
                                      !.out = r.input]
    /\ UNCHANGED << podVars, sh, js, searchRun >>

SortNext ==
    \/ \E name \in Algorithms : SortCall(name)
    \/ \E name \in Algorithms : SortAgain(name)

SortSpec == SortInit /\ [][SortNext]_vars

(***************************************************************************)
(* The search functions, part_005: one step per loop iteration.            *)
(***************************************************************************)
SearchFunctions == {"binarySearch", "lowerBound", "upperBound"}

\* Ascending-sorted number arrays, the empty one included.
SortedArrays ==
    { a \in UNION { [1..n -> 1..MaxKey] : n \in 0..MaxArrayLen } :
        \A i \in 2..Len(a) : a[i - 1] <= a[i] }

\* Targets below, among and above the values of the arrays.
Targets == 0..(MaxKey + 1)

SearchInit ==
    /\ Idle
    /\ searchRun \in [arr : SortedArrays, target : Targets, fn : {"none"},
                       lo : {0}, hi : {0}, done : {{}},
                       ret : {[f \in SearchFunctions |-> -1]}]
    /\ sh = Null
    /\ js = Null
    /\ sortRun = Null

\* Lines 7, 19, 29: a call starts.
SearchCall(f) ==
    /\ searchRun.fn = "none"
    /\ f \notin searchRun.done
    /\ searchRun' = [searchRun EXCEPT
                       !.fn = f,
                       !.lo = 0,
                       !.hi = IF f = "binarySearch" THEN Len(searchRun.arr) - 1
                              ELSE Len(searchRun.arr)]
    /\ UNCHANGED << podVars, sh, js, sortRun >>

\* return v
SearchReturn(r, v) ==
    [r EXCEPT !.fn = "none", !.done = @ \cup {r.fn}, !.ret[r.fn] = v]

\* const mid = lo + Math.floor((hi - lo) / 2)
Mid(r) == r.lo + ((r.hi - r.lo) \div 2)

\* Variant of binarySearchIter: the upper end moves to mid, not below it.
binarySearchIter_HiMid(r) ==
    IF r.lo <= r.hi
    THEN IF At(r.arr, Mid(r)) = r.target THEN SearchReturn(r, Mid(r))
         ELSE IF At(r.arr, Mid(r)) < r.target THEN [r EXCEPT !.lo = Mid(r) + 1]
         ELSE [r EXCEPT !.hi = Mid(r)]
    ELSE SearchReturn(r, -1)

\* Lines 8-15: one test of the loop condition and one iteration, or the return.
binarySearchIter(r) ==
    IF r.lo <= r.hi
    THEN IF At(r.arr, Mid(r)) = r.target THEN SearchReturn(r, Mid(r))
         ELSE IF At(r.arr, Mid(r)) < r.target THEN [r EXCEPT !.lo = Mid(r) + 1]
         ELSE [r EXCEPT !.hi = Mid(r) - 1]
    ELSE SearchReturn(r, -1)

\* Variant of lowerBoundIter: elements equal to the target are skipped too.
lowerBoundIter_SkipEqual(r) ==
    IF r.lo < r.hi
    THEN IF At(r.arr, Mid(r)) <= r.target THEN [r EXCEPT !.lo = Mid(r) + 1]
         ELSE [r EXCEPT !.hi = Mid(r)]
    ELSE SearchReturn(r, r.lo)

\* Lines 20-25.
lowerBoundIter(r) ==
    IF r.lo < r.hi
    THEN IF At(r.arr, Mid(r)) < r.target THEN [r EXCEPT !.lo = Mid(r) + 1]
         ELSE [r EXCEPT !.hi = Mid(r)]
    ELSE SearchReturn(r, r.lo)

\* Lines 30-35.
upperBoundIter(r) ==
    IF r.lo < r.hi
    THEN IF At(r.arr, Mid(r)) <= r.target THEN [r EXCEPT !.lo = Mid(r) + 1]
         ELSE [r EXCEPT !.hi = Mid(r)]
    ELSE SearchReturn(r, r.lo)

binarySearchStep ==
    /\ searchRun.fn = "binarySearch"
    /\ searchRun' = binarySearchIter(searchRun)
    /\ UNCHANGED << podVars, sh, js, sortRun >>

lowerBoundStep ==
    /\ searchRun.fn = "lowerBound"
    /\ searchRun' = lowerBoundIter(searchRun)
    /\ UNCHANGED << podVars, sh, js, sortRun >>

upperBoundStep ==
    /\ searchRun.fn = "upperBound"
    /\ searchRun' = upperBoundIter(searchRun)
    /\ UNCHANGED << podVars, sh, js, sortRun >>

SearchNext ==
    \/ \E f \in SearchFunctions : SearchCall(f)
    \/ binarySearchStep
    \/ lowerBoundStep
    \/ upperBoundStep

SearchSpec == SearchInit /\ [][SearchNext]_vars

\* A running function keeps executing: the program is sequential and nothing
\* blocks it.
SearchFairSpec == SearchSpec /\ WF_vars(SearchNext)

TypeOK ==
    /\ mpc \in {"entry", "process", "spawn", "wait", "return", "responded"}
    /\ semaphore \in 0..semaphoreCap
    /\ wg \in 0..N
    /\ mu \in 0..N
    /\ \A i \in Workers :
          pc[i] \in {"idle", "acquire", "upload", "transfer", "lock", "load", "update",
                     "release", "done"}

(***************************************************************************)
(* Properties.                                                             *)
(***************************************************************************)
ParamsPresent ==
    /\ info.ContainerName # ""
    /\ info.Namespace # ""
    /\ info.PodName # ""
    /\ info.Path # << >>

\* The request passed cluster selection (the routing layer, lines 79-83), which
\* precedes the validator.
ReachedValidator == ~selectErr

\* A well-formed batch: all four parameters, a parsed form with 1 .. maxFiles items.
WellFormed ==
    /\ ReachedValidator
    /\ ParamsPresent
    /\ ~formErr
    /\ N \in 1..maxFiles

\* processBatchUpload has passed wg.Wait(): it is about to return or has returned.
Returned == result # Null /\ mpc \in {"return", "responded"}

InTransfer == { i \in Workers : pc[i] = "transfer" }

\* The workers that hold a slot of the semaphore.
Admitted ==
    { i \in Workers : pc[i] \in {"upload", "transfer", "lock", "load", "update", "release"} }

\* Every slot of res is written and the counters sum to the total.
FullyReported(res) ==
    /\ \A i \in Workers : res.Files[i].Status \in {"done", "error"}
    /\ res.SuccessCount + res.FailureCount = res.TotalFiles

\* C1: from allocation on, Files has length N = TotalFiles; once the batch has
\* returned, Files[i] carries the name and the size of input item i, for every i and
\* every order in which the workers finished.
C1_IndexAligned ==
    /\ result # Null =>
          /\ Len(result.Files) = N
          /\ result.TotalFiles = N
    /\ Returned =>
          \A i \in Workers :
             /\ result.Files[i].FileName = files[i].Filename
             /\ result.Files[i].Size = files[i].Size

C1_Witness ==
    /\ mpc = "responded"
    /\ resp.kind = "data"
    /\ N = maxFiles
    /\ files[1] # files[2]
    /\ resp.data.Files[1].FileName = files[1].Filename
    /\ resp.data.Files[2].FileName = files[2].Filename

\* C2: when processBatchUpload returns, SuccessCount + FailureCount = TotalFiles,
\* SuccessCount is the number of "done" entries of Files and FailureCount the number
\* of "error" entries.
C2_CountsMatch ==
    Returned =>
       /\ result.SuccessCount + result.FailureCount = result.TotalFiles
       /\ result.SuccessCount =
             Cardinality({ i \in Workers : result.Files[i].Status = "done" })
       /\ result.FailureCount =
             Cardinality({ i \in Workers : result.Files[i].Status = "error" })

C2_Witness ==
    /\ Returned
    /\ N = maxFiles
    /\ result.SuccessCount >= 1
    /\ result.FailureCount >= 2

\* C3: at every moment at most semaphoreCap items are in the remote-write step, and
\* at most semaphoreCap workers are past the admission gate (line 142), so that a
\* further worker stays at the gate until a slot is released.
C3_BoundedTransfers ==
    /\ Cardinality(InTransfer) <= semaphoreCap
    /\ Cardinality(Admitted) <= semaphoreCap
    /\ semaphore = Cardinality(Admitted)

C3_Witness ==
    /\ N > semaphoreCap
    /\ Cardinality(InTransfer) = semaphoreCap
    /\ \E i \in Workers : pc[i] = "acquire"

\* C4: EndTime and Duration are set, and the result is handed to the response, only
\* when every worker has written its slot and updated its counter; the response
\* carries the completed result.
C4_ReadAfterBarrier ==
    /\ (result # Null /\ result.EndTime # "zero") =>
          /\ \A i \in Workers : pc[i] \in {"release", "done"}
          /\ FullyReported(result)
    /\ resp.kind = "data" =>
          /\ FullyReported(resp.data)
          /\ resp.data.EndTime = "end"
          /\ resp.data.Duration = "end-start"
          /\ resp.data = result

C4_Witness ==
    /\ resp.kind = "data"
    /\ N = maxFiles
    /\ \A i \in Workers : pc[i] = "done"

\* The status and error detail item i must have, from its own name and the outcomes
\* of its own staging and its own remote write alone.
OwnStatus(i) ==
    IF files[i].Filename # << >> /\ stageOutcome[i] = "ok" /\ transferOutcome[i] = "ok"
    THEN "done" ELSE "error"

OwnError(i) ==
    IF files[i].Filename = << >> THEN <<"EmptyFileName">>
    ELSE IF stageOutcome[i] # "ok" THEN <<"SaveTempFileFailed", stageOutcome[i], "ioerr">>
    ELSE IF transferOutcome[i] = "open" THEN <<"UploadToPodFailed", "open", "ioerr">>
    ELSE IF transferOutcome[i] = "upload" THEN <<"UploadToPodFailed", "upload", "remoteerr">>
    ELSE << >>

\* C5: per-item independence.  Once the batch has returned, the status and the error
\* of every item i are a function of item i's own name, own staging outcome and own
\* remote-write outcome, whatever happened to the other items; every item with a
\* name was staged, and every staged item was handed to the remote writer.
C5_PerItemIndependence ==
    Returned =>
       \A i \in Workers :
          /\ result.Files[i].Status = OwnStatus(i)
          /\ result.Files[i].Error = OwnError(i)
          /\ files[i].Filename # << >> => stageOutcome[i] # "none"
          /\ stageOutcome[i] = "ok" => transferOutcome[i] # "none"

C5_Witness ==
    /\ Returned
    /\ N >= 3
    /\ stageOutcome[1] = "copy"
    /\ transferOutcome[2] = "upload"
    /\ result.Files[3].Status = "done"

\* C6: if the remote writer fails for exactly one item and succeeds for all others,
\* then at return that item is "error", the others are "done", FailureCount = 1 and
\* SuccessCount = N - 1.
C6_SingleRemoteFailure ==
    Returned =>
       \A j \in Workers :
          (/\ transferOutcome[j] = "upload"
           /\ \A i \in Workers \ {j} : transferOutcome[i] = "ok")
          => /\ result.Files[j].Status = "error"
             /\ \A i \in Workers \ {j} : result.Files[i].Status = "done"
             /\ result.FailureCount = 1
             /\ result.SuccessCount = N - 1

C6_Witness ==
    /\ mpc = "responded"
    /\ N = maxFiles
    /\ transferOutcome[2] = "upload"
    /\ \A i \in Workers \ {2} : transferOutcome[i] = "ok"
    /\ resp.kind = "data"
    /\ resp.data.FailureCount = 1

\* C7: for every accepted batch size 1 .. maxFiles, when the remote write of every
\* item succeeds, the response is the normal one with success_count = N,
\* failure_count = 0, total_files = N and N entries in files.
C7_AllSucceed ==
    (/\ mpc = "responded"
     /\ WellFormed
     /\ \A i \in Workers : transferOutcome[i] = "ok")
    => /\ resp.kind = "data"
       /\ resp.data.SuccessCount = N
       /\ resp.data.FailureCount = 0
       /\ resp.data.TotalFiles = N
       /\ Len(resp.data.Files) = N

C7_Witness ==
    /\ mpc = "responded"
    /\ N = maxFiles
    /\ \A i \in Workers : transferOutcome[i] = "ok"
    /\ resp.kind = "data"
    /\ resp.data.SuccessCount = maxFiles

\* C8: a well-formed batch is never answered with a request-level error; its
\* response is the normal one and carries the BatchUploadResult, also when every
\* item failed.
C8_WellFormedAccepted ==
    WellFormed =>
       /\ resp.kind # "error"
       /\ mpc = "responded" =>
             /\ resp.kind = "data"
             /\ resp.data = result
             /\ resp.data.TotalFiles = N

C8_Witness ==
    /\ mpc = "responded"
    /\ N = maxFiles
    /\ resp.kind = "data"
    /\ resp.data.FailureCount = N
    /\ \E i \in Workers : stageOutcome[i] \in {"mkdir", "create", "open", "copy"}
    /\ \E i \in Workers : transferOutcome[i] = "upload"

\* The handler has called processBatchUpload.
Accepted == mpc \in {"process", "spawn", "wait", "return"} \/ resp.kind = "data"

\* C9: with the four parameters present, a batch is accepted exactly when it has
\* 1 .. maxFiles items; an empty batch and a batch of more than maxFiles items are
\* rejected with their own request-level errors.
C9_BatchSizeChecked ==
    (ReachedValidator /\ ParamsPresent /\ ~formErr /\ mpc # "entry") =>
       /\ N = 0 => mpc = "responded" /\ resp = JsonError("NoFiles")
       /\ N > maxFiles => mpc = "responded" /\ resp = JsonError("TooManyFiles")
       /\ N \in 1..maxFiles => Accepted /\ resp.kind # "error"
       /\ Accepted <=> N \in 1..maxFiles

C9_Witness ==
    /\ ParamsPresent
    /\ N = maxFiles + 1
    /\ resp = JsonError("TooManyFiles")

\* C10: a request with any of containerName, namespace, podName, path empty is
\* rejected with the missing-parameter error, whatever the other parameters, the
\* form and the item list are.
C10_MissingParameter ==
    (ReachedValidator /\ ~ParamsPresent /\ mpc # "entry") =>
       /\ mpc = "responded"
       /\ resp = JsonError("MissingParams")

C10_Witness ==
    /\ info.Path = << >>
    /\ info.ContainerName # ""
    /\ info.Namespace # ""
    /\ info.PodName # ""
    /\ ~formErr
    /\ N = 2
    /\ resp = JsonError("MissingParams")

\* The request fails validation: a parameter is missing, or the parsed form holds
\* no file or more than maxFiles files.
Invalid ==
    \/ ~ParamsPresent
    \/ ~formErr /\ (N = 0 \/ N > maxFiles)

\* C11: on a validation failure no worker is started, no item is staged, the remote
\* writer is not called, no temporary directory or file exists and no result is
\* allocated or sent: the response carries no payload.
C11_RejectionHasNoEffect ==
    Invalid =>
       /\ \A i \in Workers : pc[i] = "idle"
       /\ \A i \in Workers : stageOutcome[i] = "none" /\ transferOutcome[i] = "none"
       /\ tempDirs = {}
       /\ DOMAIN tempFiles = {}
       /\ \A i \in Workers : remoteCalls[i] = Null
       /\ result = Null
       /\ wg = 0 /\ semaphore = 0
       /\ resp.kind # "data"

C11_Witness ==
    /\ ~selectErr
    /\ ParamsPresent
    /\ ~formErr
    /\ N = maxFiles + 1
    /\ mpc = "responded"
    /\ resp.kind = "error"
    /\ result = Null


\* C12: once the batch call has returned, no temporary file is left on disk,
\* whatever the outcome of each item, a staging that failed after the file was
\* created included.
C12_NoTempFileRemains == Returned => DOMAIN tempFiles = {}

\* The items whose processing has left uploadSingleFile.
Processed == { i \in Workers : pc[i] \in {"lock", "load", "update", "release", "done"} }

\* C13: when the processing of an item has ended, on whichever path, its staged
\* file and its private directory are deleted; after the batch has returned no
\* staging directory exists.
C13_StagingReleased ==
    /\ \A i \in Processed : DirOf(i) \notin tempDirs /\ StagedPath(i) \notin DOMAIN tempFiles
    /\ Returned => tempDirs = {}

\* The items saveUploadedFile has created a directory for.
HasDir == { i \in Workers : stageOutcome[i] \notin {"none", "mkdir"} }

\* C14: two items of a batch, also two with the same name, have distinct staging
\* directories and distinct staged paths, and no item's staged file is
\* overwritten or removed by another: while an item is in its transfer its file
\* is on disk with its own bytes, and the remote writer is given these bytes.
C14_PrivateStaging ==
    /\ \A i, j \in HasDir :
          i # j => DirOf(i) # DirOf(j) /\ StagedPath(i) # StagedPath(j)
    /\ \A i \in InTransfer :
          /\ DirOf(i) \in tempDirs
          /\ StagedPath(i) \in DOMAIN tempFiles
          /\ tempFiles[StagedPath(i)] = Content("full", i)
    /\ \A i \in Workers :
          remoteCalls[i] # Null => remoteCalls[i].source = Content("full", i)

C14_Witness ==
    \E i, j \in InTransfer :
       /\ i # j
       /\ files[i].Filename = files[j].Filename
       /\ remoteCalls = [k \in Workers |-> Null]

\* The destinations of the batch a.txt, b:c.txt, a.txt uploaded to /tmp.
DuplicateNameDestinations ==
    << <<"/", "t", "m", "p", "/", "a", ".", "t", "x", "t">>,
       <<"/", "t", "m", "p", "/", "b", "_", "c", ".", "t", "x", "t">>,
       <<"/", "t", "m", "p", "/", "a", ".", "t", "x", "t">> >>

\* C15: the remote writer is called for the namespace, pod and container of the
\* batch, with the destination directory joined with the sanitized name of the
\* item; the batch a.txt, b:c.txt, a.txt uploaded to /tmp is written to
\* /tmp/a.txt, /tmp/b_c.txt, /tmp/a.txt, and all three items are done when their
\* staging and remote writes succeed.
C15_RemoteDestination ==
    /\ \A i \in Workers :
          remoteCalls[i] # Null =>
             /\ remoteCalls[i].info.Namespace = info.Namespace
             /\ remoteCalls[i].info.PodName = info.PodName
             /\ remoteCalls[i].info.ContainerName = info.ContainerName
             /\ remoteCalls[i].info.Path =
                   JoinPath(info.Path, SanitizeFileName(files[i].Filename))
    /\ files = DuplicateNameBatch /\ info.Path = PathTmp =>
          /\ \A i \in Workers :
                remoteCalls[i] # Null =>
                   remoteCalls[i].info.Path = DuplicateNameDestinations[i]
          /\ Returned /\ (\A i \in Workers : transferOutcome[i] = "ok") =>
                \A i \in Workers : result.Files[i].Status = "done"

C15_Witness ==
    /\ files = DuplicateNameBatch
    /\ mpc = "responded"
    /\ \A i \in Workers : remoteCalls[i] # Null /\ transferOutcome[i] = "ok"
    /\ remoteCalls[2].info.Path = DuplicateNameDestinations[2]
    /\ \A i \in Workers : resp.data.Files[i].Status = "done"

\* The items whose remote write has failed and whose result is in the list.
RemoteFailed ==
    { i \in Workers : transferOutcome[i] = "upload" /\ pc[i] \in {"release", "done"} }

\* C16, as stated: the error detail of an item whose remote write failed is
\* exactly the failure the remote writer returned, nothing added.
C16_VerbatimError ==
    \A i \in RemoteFailed : result.Files[i].Error = <<"remoteerr">>

\* C16: the error detail of an item whose remote write failed is the failure the
\* remote writer returned, unchanged, after the two fixed texts uploadSingleFile
\* and uploadToPod put in front of it.
C16_WrappedError ==
    \A i \in RemoteFailed :
       /\ result.Files[i].Status = "error"
       /\ result.Files[i].Error = <<"UploadToPodFailed", "upload", "remoteerr">>

C16_Witness ==
    /\ mpc = "responded"
    /\ \E i \in RemoteFailed :
          resp.data.Files[i].Error = <<"UploadToPodFailed", "upload", "remoteerr">>


\* C19: the sanitizer is idempotent, sanitize(sanitize(x)) = sanitize(x) for
\* every name x.
C19_Idempotent == Len(sanTrace) = 3 => sanTrace[3] = sanTrace[2]

C19_Witness ==
    /\ Len(sanTrace) = 3
    /\ sanTrace[2] # sanTrace[1]
    /\ sanTrace[3] = sanTrace[2]

\* C20: the sanitized name holds none of / : * ? " < > | and none of ( ), the
\* space and the backslash, so it holds no path separator.
C20_NoReplacedCharacter ==
    Len(sanTrace) >= 2 =>
       \A k \in 1..Len(sanTrace[2]) : sanTrace[2][k] \notin Blacklist

C20_Witness ==
    /\ Len(sanTrace) = 2
    /\ Len(sanTrace[1]) = MaxNameLen
    /\ \E k \in 1..MaxNameLen : sanTrace[1][k] = "/"
    /\ \E k \in 1..MaxNameLen : sanTrace[1][k] = ":"
    /\ \A k \in 1..MaxNameLen : sanTrace[2][k] \notin Blacklist


\* The workers are being started or waited for.
Dispatched == result # Null /\ mpc \in {"spawn", "wait"}

\* C17: there is no cancellation.  When the caller has abandoned the request
\* after dispatch, every worker still runs to its end and writes its slot, and
\* the batch returns with every slot written and the counters summing to the
\* total.
C17_NoCancellation ==
    (abandoned /\ Dispatched) ~>
       /\ Returned
       /\ \A i \in Workers : pc[i] = "done"
       /\ FullyReported(result)

C17_Witness ==
    /\ abandoned
    /\ mpc = "wait"
    /\ N = maxFiles
    /\ \E i \in Workers : pc[i] = "acquire"
    /\ \E i \in Workers : pc[i] = "update"


\* The result a call returns when it runs alone: the one its own request and the
\* outcomes of its own items determine.
AloneResult ==
    [TotalFiles   |-> N,
     SuccessCount |-> Cardinality({ i \in Workers : OwnStatus(i) = "done" }),
     FailureCount |-> Cardinality({ i \in Workers : OwnStatus(i) = "error" }),
     Files        |-> [i \in Workers |->
                         [FileName |-> files[i].Filename, Status |-> OwnStatus(i),
                          Error |-> OwnError(i), Size |-> files[i].Size]],
     StartTime    |-> "start",
     EndTime      |-> "end",
     Duration     |-> "end-start"]

\* C18: two calls running at once share no mutable state.  For the call that
\* takes a step, whichever it is: its gate counts its own admitted workers only,
\* its lock is held by one of its own workers only, its WaitGroup counts its own
\* running workers, its counters count its own reported items, the staged file
\* of each of its items in transfer is intact, and its response is the result
\* its own request and item outcomes determine, the one it returns when alone.
C18_CallsIndependent ==
    /\ semaphore = Cardinality(Admitted)
    /\ mu # 0 => mu \in Workers /\ pc[mu] \in {"load", "update"}
    /\ wg = Cardinality({ i \in Workers : pc[i] \notin {"idle", "done"} })
    /\ result # Null =>
          result.SuccessCount + result.FailureCount =
             Cardinality({ i \in Workers : pc[i] \in {"release", "done"} })
    /\ \A i \in InTransfer :
          /\ StagedPath(i) \in DOMAIN tempFiles
          /\ tempFiles[StagedPath(i)] = Content("full", i)
    /\ mpc = "responded" => resp = JsonData(AloneResult)

C18_Witness ==
    /\ other # Null
    /\ mpc = "responded"
    /\ resp = JsonData(AloneResult)
    /\ resp.data.SuccessCount = 1
    /\ other.mpc = "wait"
    /\ other.mu # 0
    /\ other.semaphore = Len(other.files)


\* C21: the sanitizer replaces each character of the replaced set by exactly one
\* underscore and keeps every other character, so the result has the length of
\* the name (an empty name stays empty, a non-empty one non-empty); for the name
\* of the test the result is the value the test asserts.
C21_OneForOne ==
    Len(sanTrace) >= 2 =>
       /\ Len(sanTrace[2]) = Len(sanTrace[1])
       /\ \A k \in 1..Len(sanTrace[1]) :
             sanTrace[2][k] = IF sanTrace[1][k] \in Blacklist THEN "_"
                              ELSE sanTrace[1][k]
       /\ sanTrace[1] = SanitizeTestName => sanTrace[2] = SanitizeTestExpected


\* C22: when saveUploadedFile has succeeded for an item, the path it returned
\* names a file on disk that holds all the bytes of the item, and the base name
\* of the path is the original name of the item, not the sanitized one.
C22_StagedFileFaithful ==
    \A i \in Workers :
       stageOutcome[i] = "ok" /\ pc[i] = "transfer" =>
          /\ StagedPath(i) \in DOMAIN tempFiles
          /\ tempFiles[StagedPath(i)].state = "full"
          /\ tempFiles[StagedPath(i)].call = cur
          /\ tempFiles[StagedPath(i)].item = i
          /\ Base(JoinPath(TempDirPath, StagedPath(i)[2])) = files[i].Filename

C22_Witness ==
    \E i \in Workers :
       /\ stageOutcome[i] = "ok" /\ pc[i] = "transfer"
       /\ files[i].Filename # SanitizeFileName(files[i].Filename)
       /\ Base(JoinPath(TempDirPath, StagedPath(i)[2])) = NameBC
       /\ tempFiles[StagedPath(i)].state = "full"


\* The regular files among the entries, and the lines of a kind in the output.
ShRegular == { k \in 1..Len(sh.entries) : sh.entries[k] = "file" }

ShLines(kinds) == { k \in 1..Len(sh.out) : sh.out[k].kind \in kinds }

\* C23: run on a directory with entries, the bash script attempts every regular
\* file, prints one OK or FAIL line for each and then a summary whose two counts
\* sum to the number of files attempted, and exits with a non-zero status exactly
\* when an upload failed.
C23_BashScriptReports ==
    sh # Null /\ sh.pc = "exited" /\ sh.env /\ sh.jq /\ Len(sh.entries) > 0 =>
       /\ Len(sh.uploads) = Cardinality(ShRegular)
       /\ Cardinality(ShLines({"OK", "FAIL"})) = Cardinality(ShRegular)
       /\ \E k \in ShLines({"Summary"}) :
             sh.out[k].success + sh.out[k].failed = Len(sh.uploads)
       /\ sh.status # 0 <=> \E k \in 1..Len(sh.uploads) : sh.uploads[k] # "done"


JsLines(kinds) == { k \in 1..Len(js.out) : js.out[k].kind \in kinds }

TotalOrderOn(a, cmp) ==
    \A i, j \in 1..Len(a) : Cmp(cmp, a[i], a[j]) = 0 => a[i] = a[j]

Occurrences(a, x) == Cardinality({ i \in 1..Len(a) : a[i] = x })

IsPermutation(a, b) ==
    /\ Len(a) = Len(b)
    /\ \A i \in 1..Len(b) : Occurrences(a, b[i]) = Occurrences(b, b[i])

IsSorted(a, cmp) == \A i \in 2..Len(a) : Cmp(cmp, a[i - 1], a[i]) <= 0

\* C25: with a comparator that is a total order on the input, each of the six
\* algorithms returns an array that is not the input array, has its length, is a
\* permutation of it and is sorted by the comparator; the input array is left
\* as it was; sorting the output again returns the same array.
C25_SortContract ==
    sortRun # Null /\ sortRun.alg # "none" /\ TotalOrderOn(sortRun.original, sortRun.cmp) =>
       /\ ~sortRun.same
       /\ Len(sortRun.out) = Len(sortRun.original)
       /\ IsPermutation(sortRun.out, sortRun.original)
       /\ IsSorted(sortRun.out, sortRun.cmp)
       /\ sortRun.input = sortRun.original
       /\ sortRun.twice => sortRun.again = sortRun.out

C25_Witness ==
    /\ sortRun # Null
    /\ sortRun.alg = "heapSort"
    /\ sortRun.cmp = "desc"
    /\ TotalOrderOn(sortRun.original, sortRun.cmp)
    /\ Len(sortRun.original) = MaxArrayLen
    /\ ~IsSorted(sortRun.original, sortRun.cmp)
    /\ \E i, j \in 1..Len(sortRun.original) : i # j /\ sortRun.original[i] = sortRun.original[j]
    /\ sortRun.twice
    /\ sortRun.again = sortRun.out

\* C26: mergeSort, insertionSort and bubbleSort are stable: on an array of
\* objects that carry their input position, two elements of the output that
\* compare equal are in the order of their input positions.
C26_Stable ==
    /\ sortRun # Null
    /\ sortRun.alg \in {"mergeSort", "insertionSort", "bubbleSort"}
    /\ sortRun.original \in ObjectArrays
    => \A i, j \in 1..Len(sortRun.out) :
          i < j /\ Cmp(sortRun.cmp, sortRun.out[i], sortRun.out[j]) = 0
             => sortRun.out[i].id < sortRun.out[j].id

C26_Witness ==
    /\ sortRun # Null
    /\ sortRun.alg = "mergeSort"
    /\ sortRun.original \in ObjectArrays
    /\ Len(sortRun.out) = 4
    /\ sortRun.out # sortRun.original
    /\ sortRun.out[1].k = sortRun.out[2].k
    /\ sortRun.out[3].k = sortRun.out[4].k
    /\ sortRun.out[1].id = 2 /\ sortRun.out[2].id = 4


SearchDone(f) == searchRun # Null /\ f \in searchRun.done

SearchPositions(Keep(_)) ==
    { i \in 0..(Len(searchRun.arr) - 1) : Keep(At(searchRun.arr, i)) }

Smallest(S) == CHOOSE x \in S : \A y \in S : x <= y

\* C27: on an ascending-sorted array binarySearch returns an index that holds
\* the target when the target occurs and -1 when it does not, and every call
\* returns.
C27_BinarySearch ==
    /\ [](SearchDone("binarySearch") =>
            LET IsTarget(v) == v = searchRun.target
            IN  IF SearchPositions(IsTarget) # {}
                THEN searchRun.ret["binarySearch"] \in SearchPositions(IsTarget)
                ELSE searchRun.ret["binarySearch"] = -1)
    /\ [](searchRun # Null /\ searchRun.fn = "binarySearch"
            => <>SearchDone("binarySearch"))

C27_Witness ==
    /\ SearchDone("binarySearch")
    /\ searchRun.arr = <<1, 2, 2, 3>>
    /\ searchRun.target = 2
    /\ searchRun.ret["binarySearch"] \in {1, 2}

\* C28: lowerBound returns the smallest index in 0..len whose element is at
\* least the target (len if none), upperBound the smallest index whose element
\* is greater than the target (len if none); so lowerBound <= upperBound and
\* their difference is the number of occurrences of the target.
C28_Bounds ==
    LET AtLeast(v) == v >= searchRun.target
        Greater(v) == v > searchRun.target
        IsTarget(v) == v = searchRun.target
    IN  /\ SearchDone("lowerBound") =>
              searchRun.ret["lowerBound"] =
                 Smallest(SearchPositions(AtLeast) \cup {Len(searchRun.arr)})
        /\ SearchDone("upperBound") =>
              searchRun.ret["upperBound"] =
                 Smallest(SearchPositions(Greater) \cup {Len(searchRun.arr)})
        /\ SearchDone("lowerBound") /\ SearchDone("upperBound") =>
              /\ searchRun.ret["lowerBound"] <= searchRun.ret["upperBound"]
              /\ searchRun.ret["upperBound"] - searchRun.ret["lowerBound"]
                    = Cardinality(SearchPositions(IsTarget))

C28_Witness ==
    /\ SearchDone("lowerBound")
    /\ SearchDone("upperBound")
    /\ searchRun.arr = <<1, 2, 2, 3>>
    /\ searchRun.target = 2
    /\ searchRun.ret["lowerBound"] = 1
    /\ searchRun.ret["upperBound"] = 3


\* The workers that have written their result.
Reported == { i \in Workers : pc[i] \in {"release", "done"} }

CounterSum(res) == res.SuccessCount + res.FailureCount

\* C29: a slot of Files changes only in a step of the worker of its index, after
\* that worker's uploadSingleFile has returned, and takes the value it returned;
\* the step changes no other slot and adds one to the sum of the counters, which
\* changes in no other step.  A worker takes that step once: the written slots
\* are those of the workers past it, and the counters sum to their number.
C29_OwnSlotOnce ==
    /\ [](result # Null =>
            /\ \A i \in Workers : result.Files[i] # ZeroFileResult <=> i \in Reported
            /\ CounterSum(result) = Cardinality(Reported))
    /\ [][result # Null /\ result' # Null /\ mpc \in {"spawn", "wait"} =>
            /\ \A i \in Workers :
                  result'.Files[i] # result.Files[i] =>
                     /\ pc[i] = "update" /\ pc'[i] = "release"
                     /\ fileResult[i] # Null
                     /\ stageOutcome[i] # "ok" \/ transferOutcome[i] # "none"
                     /\ result'.Files[i] = fileResult[i]
                     /\ \A j \in Workers \ {i} : result'.Files[j] = result.Files[j]
                     /\ CounterSum(result') = CounterSum(result) + 1
            /\ CounterSum(result') # CounterSum(result) =>
                  \E i \in Workers : result'.Files[i] # result.Files[i]]_vars

C29_Witness ==
    /\ result # Null
    /\ N = maxFiles
    /\ pc[2] = "release" /\ result.Files[2] = fileResult[2]
    /\ pc[3] = "done" /\ result.Files[3].Status = "done"
    /\ pc[1] = "transfer" /\ result.Files[1] = ZeroFileResult
    /\ result.SuccessCount = 1 /\ result.FailureCount = 1

\* C30: the updates of the shared result exclude one another: at most one worker
\* is between mu.Lock() and mu.Unlock(), and it is the holder of the mutex; no
\* increment is lost: each counter is the number of workers that have reported a
\* result of its kind.
C30_MutualExclusion ==
    LET Inside == { i \in Workers : pc[i] \in {"load", "update"} }
    IN  /\ Cardinality(Inside) <= 1
        /\ \A i \in Inside : mu = i
        /\ Inside = {} => mu = 0
        /\ result # Null =>
              /\ result.SuccessCount =
                    Cardinality({ i \in Reported : fileResult[i].Status = "done" })
              /\ result.FailureCount =
                    Cardinality({ i \in Reported : fileResult[i].Status # "done" })

C30_Witness ==
    /\ N = maxFiles
    /\ pc[1] = "update" /\ mu = 1
    /\ pc[2] = "lock"
    /\ pc[3] = "done"
    /\ result.SuccessCount = 1
    /\ loaded[1] = [SuccessCount |-> 1, FailureCount |-> 0]


\* The workers inside uploadSingleFile: staging, or in their remote-writer call.
InPipeline == { i \in Workers : pc[i] \in {"upload", "transfer"} }

\* The workers between mu.Lock() and mu.Unlock().
InCriticalSection == { i \in Workers : pc[i] \in {"load", "update"} }

\* C31: no worker holds the mutex while it stages or while its remote-writer
\* call is in progress: the holder is always a worker that writes its slot and
\* counter.  So whenever a worker waits at mu.Lock() and no worker is in those
\* writes, the mutex is free, whatever transfers are in progress.
C31_LockOnlyForBookkeeping ==
    /\ \A i \in InPipeline : mu # i
    /\ mu # 0 => mu \in InCriticalSection
    /\ \A j \in Workers :
          pc[j] = "lock" /\ InCriticalSection = {} => mu = 0 /\ ENABLED Lock(j)

C31_Witness ==
    /\ N = maxFiles
    /\ pc[1] = "transfer"
    /\ pc[2] = "lock" /\ mu = 0
    /\ pc[3] = "done"
    /\ result.Files[3].Status = "done"


\* The items whose saveUploadedFile returned an error.
StagingFailed == { i \in Workers : stageOutcome[i] \notin {"none", "ok"} }

\* C32: an item whose staging failed is never handed to the remote writer; its
\* result is "error" with an error detail, in the worker and in its slot; at
\* return the failures are exactly the items that did not succeed, so it counts
\* once, and every item whose own staging and remote write succeeded is "done".
C32_StagingFailureScoped ==
    /\ \A i \in StagingFailed :
          /\ pc[i] # "transfer"
          /\ transferOutcome[i] = "none"
          /\ remoteCalls[i] = Null
          /\ fileResult[i].Status = "error"
          /\ fileResult[i].Error # << >>
          /\ i \in Reported =>
                result.Files[i].Status = "error" /\ result.Files[i].Error # << >>
    /\ Returned =>
          /\ result.FailureCount =
                Cardinality(StagingFailed)
                   + Cardinality({ i \in Workers \ StagingFailed : OwnStatus(i) = "error" })
          /\ \A j \in Workers \ StagingFailed :
                result.Files[j].Status = OwnStatus(j)

C32_Witness ==
    /\ Returned
    /\ N = maxFiles
    /\ StagingFailed = {2}
    /\ stageOutcome[2] = "copy"
    /\ result.Files[1].Status = "done"
    /\ result.Files[3].Status = "done"
    /\ result.FailureCount = 1


\* The items saveUploadedFile staged.
Staged == { i \in Workers : stageOutcome[i] = "ok" }

StagedFilePresent(i) == StagedPath(i) \in DOMAIN tempFiles

C34_Termination ==
    (mpc = "process") ~>
       /\ mpc = "responded"
       /\ resp.kind = "data"
       /\ \A i \in Workers : pc[i] = "done" /\ fileResult[i] # Null
       /\ semaphore = 0
       /\ wg = 0

C34_Witness ==
    /\ N > semaphoreCap
    /\ mpc = "responded"
    /\ resp.kind = "data"
    /\ \A i \in Workers : pc[i] = "done" /\ fileResult[i] # Null
    /\ semaphore = 0
    /\ wg = 0


\* The staged files that wait for, or are in, their transfer.
StagedAwaitingTransfer ==
    { p \in DOMAIN tempFiles : \E i \in InTransfer : p = StagedPath(i) }

\* C35: the gate covers the whole of uploadSingleFile.  A worker that has not
\* passed the gate has staged nothing and has no result; at most semaphoreCap
\* workers are inside uploadSingleFile, staging or transferring, each holding a
\* slot; so at most semaphoreCap staged files are written or await transfer.
C35_GateCoversPipeline ==
    /\ \A i \in Workers :
          pc[i] \in {"idle", "acquire"} =>
             /\ stageOutcome[i] = "none"
             /\ fileResult[i] = Null
             /\ ~StagedFilePresent(i)
    /\ Cardinality(InPipeline) <= semaphoreCap
    /\ Cardinality(InPipeline) <= semaphore
    /\ Cardinality(StagedAwaitingTransfer) <= semaphoreCap

C35_Witness ==
    /\ N > semaphoreCap
    /\ Cardinality(InPipeline) = semaphoreCap
    /\ \E i \in Workers : pc[i] = "upload"
    /\ Cardinality(StagedAwaitingTransfer) = semaphoreCap - 1
    /\ \E i \in Workers : pc[i] = "acquire"


\* p names an entry of the directory dir itself: dir, a separator, and one
\* element that is neither "." nor "..".
IsDirectChild(p, dir) ==
    LET d == Clean(dir)
        e == SubSeq(p, Len(d) + 2, Len(p))
    IN  /\ Len(p) > Len(d) + 1
        /\ SubSeq(p, 1, Len(d)) = d
        /\ p[Len(d) + 1] = "/"
        /\ \A k \in 1..Len(e) : e[k] # "/"
        /\ e \notin {<<".">>, <<".", ".">>}

EmptyNamed == { i \in Workers : files[i].Filename = << >> }

\* C37: an item with an empty name is not staged (no directory, no file) and not
\* handed to the remote writer; its own slot gets status "error" with the
\* empty-name error, its size kept; at return it is among the failures, counted
\* once, and the items with a name were staged and have their own outcome.
C37_EmptyNameRejected ==
    /\ \A i \in EmptyNamed :
          /\ stageOutcome[i] = "none"
          /\ transferOutcome[i] = "none"
          /\ remoteCalls[i] = Null
          /\ pc[i] # "transfer"
          /\ DirOf(i) \notin tempDirs
          /\ ~StagedFilePresent(i)
          /\ i \in Reported =>
                result.Files[i] = [FileName |-> << >>, Status |-> "error",
                                   Error |-> <<"EmptyFileName">>,
                                   Size |-> files[i].Size]
    /\ Returned =>
          /\ Len(result.Files) = N
          /\ result.FailureCount =
                Cardinality(EmptyNamed)
                   + Cardinality({ j \in Workers \ EmptyNamed : OwnStatus(j) = "error" })
          /\ \A j \in Workers \ EmptyNamed :
                /\ stageOutcome[j] # "none"
                /\ result.Files[j].Status = OwnStatus(j)
                /\ result.Files[j].FileName = files[j].Filename

C37_Witness ==
    /\ Returned
    /\ N = maxFiles
    /\ EmptyNamed = {2}
    /\ result.Files[2].Status = "error"
    /\ result.Files[1].Status = "done"
    /\ result.Files[3].Status = "done"
    /\ result.FailureCount = 1
    /\ result.SuccessCount = 2


\* The preconditions a request violates.  The items are known only when the
\* form was parsed.
Violations ==
    (IF ParamsPresent THEN {} ELSE {"MissingParams"})
       \cup (IF formErr THEN {"FormError"} ELSE {})
       \cup (IF ~formErr /\ N = 0 THEN {"NoFiles"} ELSE {})
       \cup (IF ~formErr /\ N > maxFiles THEN {"TooManyFiles"} ELSE {})

\* The order of the checks: parameters, form, empty batch, batch too large.
CheckRank ==
    [e \in {"MissingParams", "FormError", "NoFiles", "TooManyFiles"} |->
       CASE e = "MissingParams" -> 1
         [] e = "FormError" -> 2
         [] e = "NoFiles" -> 3
         [] e = "TooManyFiles" -> 4]

\* C38: the checks are applied in a fixed order, missing parameter, then (the
\* form), then empty batch, then batch too large: a request that violates
\* several preconditions is answered with the one error that comes first in
\* this order, and a request that violates none is not answered with an error.
C38_ValidationOrder ==
    ReachedValidator /\ mpc # "entry" =>
       /\ Violations # {} =>
             /\ mpc = "responded"
             /\ resp.kind = "error"
             /\ resp.error \in Violations
             /\ \A e \in Violations : CheckRank[resp.error] <= CheckRank[e]
       /\ Violations = {} => resp.kind # "error"

C38_Witness ==
    /\ ReachedValidator
    /\ ~formErr
    /\ Violations = {"MissingParams", "NoFiles"}
    /\ resp = JsonError("MissingParams")


\* The workers of the other call whose remote-writer call is in progress.
OtherInTransfer ==
    IF other = Null THEN {}
    ELSE { i \in DOMAIN other.pc : other.pc[i] = "transfer" }

\* C39: the bound of the gate is per call, not process-wide.  Each of two calls
\* running at once has at most semaphoreCap remote-writer calls in progress, and
\* a worker that waits at the gate of its call is admitted as soon as fewer than
\* semaphoreCap workers of its own call are inside, however many workers of the
\* other call are inside; so the two calls together can have 2 * semaphoreCap
\* remote-writer calls in progress against the same target.
C39_GatePerCall ==
    /\ Cardinality(InTransfer) <= semaphoreCap
    /\ Cardinality(OtherInTransfer) <= semaphoreCap
    /\ \A i \in Workers :
          pc[i] = "acquire" /\ Cardinality(Admitted) < semaphoreCap =>
             /\ CanSend(semaphore)
             /\ ENABLED Acquire(i)

C39_Witness ==
    /\ other # Null
    /\ Cardinality(InTransfer) = semaphoreCap
    /\ Cardinality(OtherInTransfer) = semaphoreCap
    /\ other.info.PodName = info.PodName
    /\ other.info.Namespace = info.Namespace
    /\ other.info.ContainerName = info.ContainerName

====
